---- MODULE Spec2Model ----
(***************************************************************************)
(* Verification model of the ray tracer's render drivers                   *)
(* (scenes/camera.rs) and of the World shading pipeline (scenes/world.rs). *)
(*                                                                         *)
(* Three specifications share the module:                                  *)
(*   Spec       the sequential render, the parallel band render, the       *)
(*              progress counter and the RwLock around the World;          *)
(*   SpecRay    intersect_world, hit_world, prepare_computations and       *)
(*              is_shadowed applied to one ray of a bounded World;         *)
(*   SpecShade  the recursion of color_at / shade_hit / reflected_color /  *)
(*              refracted_color as a call stack.                           *)
(*                                                                         *)
(* Floating point values are modelled by integers: t values are integers,  *)
(* refractive indices are in tenths (10 = 1.0), colors and the factors     *)
(* reflective / transparency are in percent (100 = 1.0).                   *)
(***************************************************************************)
EXTENDS Integers, Sequences, FiniteSets, Bags, TLC

VARIABLES
    \* ---- shared by all specifications
    world,        \* World { objects, lights }
    \* ---- Spec: render drivers
    cam,          \* Camera { hsize, vsize }
    lockReaders,  \* RwLock<World>: number of read guards alive
    lockWriter,   \* RwLock<World>: a write guard is alive
    edits,        \* number of mutations the editor has done
    tracker,      \* Arc<AtomicUsize> progress counter
    parPc,        \* position of parallel_render
    parWorld,     \* the World parallel_render saw when it took the read guard
    image,        \* canvas of parallel_render: pixel index -> color
    bands,        \* band index -> [row, col] loop position of the band's closure
    written,      \* pixel index -> sequence of bands that wrote it (history)
    seqPc,        \* position of the sequential render
    seqWorld,     \* the &World borrowed by render
    seqImage,     \* canvas of render
    seqPos,       \* [x, y] loop position of render
    \* ---- SpecRay: one ray through the pipeline
    rayPc,        \* which function was applied last
    rayGeo,       \* transform -> t values of object.intersect(ray)
    rayXs,        \* result of intersect_world
    rayHit,       \* result of hit_world (0 = None, else index into rayXs)
    rayComps,     \* result of prepare_computations
    rayDist,      \* distance from the point to the first light
    rayShadow,    \* result of is_shadowed
    rayColor,     \* color returned by color_at when hit_world found nothing
    \* ---- SpecShade: call stack of color_at
    stack,        \* sequence of color_at frames, innermost last
    result,       \* color returned by the outermost color_at
    shadePc,      \* "off", "running", "done" or "panic"
    \* ---- SpecTransform: one Object or Group under transform mutations
    ent,          \* its transformations_list, transform and cached inverses
    entPc,        \* "off", "ok" or "panic"
    entOp,        \* the last mutation and its arguments
    \* ---- SpecGroup: a tree of ObjectHolders and a ray through it
    tree,         \* the ObjectHolder values and the children each holds
    grpPc,        \* the last call and its arguments
    grpXs,        \* the Vec intersect returned
    grpRes,       \* the Result the last call returned, "none" or "panic"
    \* ---- SpecTuple, SpecShape, SpecPattern, SpecPreview: one call of a function
    tupPc,        \* "off", "ready" or the operation that ran
    tupIn,        \* the operation and its operands
    tupOut,       \* its result
    \* ---- SpecEditor, SpecRenderBar: the RayTracer application (app.rs)
    appPc,        \* position of the UI thread: "off", "default", "handlers",
                  \* "update_preview" or "panic"
    events,       \* number of widget events handled so far
    active_object,                 \* Option<usize>: <<>> or <<index>>
    preview_up_to_date,            \* Arc<AtomicBool>
    thread_just_finished_preview,  \* Arc<AtomicBool>
    preview_image,                 \* Option: <<>> or <<the World it was rendered from>>
    last_preview,                  \* Option: <<>> or <<the World the texture shows>>
    channel,      \* Worlds sent through world_sender and not yet received
    previewThread,                 \* [pc, wd] of the preview thread
    rendering,                     \* Arc<AtomicBool>
    rendering_progress,            \* Arc<AtomicUsize>
    renderThreads,                 \* the render threads alive: [pc, done, total]
    shown         \* the ProgressBar drawn last: <<>> or <<[num, den]>>

varsWorld == <<world>>

varsRender == <<cam, lockReaders, lockWriter, edits, tracker, parPc, parWorld,
                image, bands, written, seqPc, seqWorld, seqImage, seqPos>>

varsRay == <<rayPc, rayGeo, rayXs, rayHit, rayComps, rayDist, rayShadow,
             rayColor>>

varsShade == <<stack, result, shadePc>>

varsApp == <<appPc, events, active_object, preview_up_to_date,
             thread_just_finished_preview, preview_image, last_preview,
             channel, previewThread, rendering, rendering_progress,
             renderThreads, shown>>

varsGeom == <<ent, entPc, entOp, tree, grpPc, grpXs, grpRes,
              tupPc, tupIn, tupOut, varsApp>>

vars == <<world, cam, lockReaders, lockWriter, edits, tracker, parPc, parWorld,
          image, bands, written, seqPc, seqWorld, seqImage, seqPos,
          rayPc, rayGeo, rayXs, rayHit, rayComps, rayDist, rayShadow, rayColor,
          stack, result, shadePc,
          ent, entPc, entOp, tree, grpPc, grpXs, grpRes, tupPc, tupIn, tupOut,
          appPc, events, active_object, preview_up_to_date,
          thread_just_finished_preview, preview_image, last_preview,
          channel, previewThread, rendering, rendering_progress,
          renderThreads, shown>>

----------------------------------------------------------------------------
(* Bounds *)

MaxH == 2

MaxV == 12

MaxEdits == 1

StaleTracker == 7

MaxObjects == 2

MaxDist == 3

(* Program constants *)

BAND_SIZE == 10

DEFAULT_RECURSION_DEPTH == 5

----------------------------------------------------------------------------
(* Materials and objects.  An Object is a value: shape, material and       *)
(* transform; `xf` stands for the transform (and the shape).               *)

DefaultObject ==
    [xf |-> 0, ambient |-> 10, diffuse |-> 90, reflective |-> 0,
     transparency |-> 0, refractive_index |-> 10, casts_shadow |-> TRUE]

GlassSphere ==
    [xf |-> 0, ambient |-> 0, diffuse |-> 0, reflective |-> 90,
     transparency |-> 90, refractive_index |-> 15, casts_shadow |-> FALSE]

Mirror ==
    [xf |-> 1, ambient |-> 10, diffuse |-> 90, reflective |-> 50,
     transparency |-> 0, refractive_index |-> 10, casts_shadow |-> TRUE]

DenseGlass ==
    [xf |-> 2, ambient |-> 10, diffuse |-> 0, reflective |-> 0,
     transparency |-> 50, refractive_index |-> 20, casts_shadow |-> TRUE]

Objects == {DefaultObject, GlassSphere, Mirror, DenseGlass}

Light == [intensity |-> 100]

NewWorld(objects, lights) == [objects |-> objects, lights |-> lights]

add_object(w, object) == [w EXCEPT !.objects = Append(@, object)]

(* World::new_default: two spheres, the second scaled by 0.5, one light *)
new_default ==
    NewWorld(<<[DefaultObject EXCEPT !.diffuse = 70],
               [DefaultObject EXCEPT !.xf = 5]>>, <<Light>>)

----------------------------------------------------------------------------
(* Camera and canvas *)

Min(a, b) == IF a < b THEN a ELSE b

(* Camera::ray_for_pixel: the ray through the centre of pixel (x, y); for a *)
(* fixed camera it is determined by, and distinct for, each (x, y).         *)
ray_for_pixel(x, y) == [px |-> x, py |-> y]

(* The value World::color_at computes: a pure function of the World, the   *)
(* ray and the depth, kept symbolic in the render drivers.                 *)
color_at_value(w, ray, remaining) == <<"color_at", w, ray, remaining>>

BlackPixel == <<"black">>

NumPixels(c) == c.hsize * c.vsize

(* Canvas::new: width * height black pixels, indexed from 0 *)
CanvasNew(width, height) == [k \in 0..(width * height - 1) |-> BlackPixel]

xy_to_1d(width, x, y) == y * width + x

(* par_chunks_mut(hsize * BAND_SIZE): consecutive chunks, the last one     *)
(* possibly shorter                                                        *)
ChunkSize(c) == c.hsize * BAND_SIZE

NumBands(c) == (NumPixels(c) + ChunkSize(c) - 1) \div ChunkSize(c)

BandStart(c, i) == i * ChunkSize(c)

BandLen(c, i) == Min(ChunkSize(c), NumPixels(c) - BandStart(c, i))

----------------------------------------------------------------------------
(* Spec: the render drivers *)

RayIdle ==
    /\ rayPc = "off" /\ rayGeo = <<>> /\ rayXs = <<>> /\ rayHit = 0
    /\ rayComps = <<>> /\ rayDist = 0 /\ rayShadow = "none" /\ rayColor = -1

ShadeIdle ==
    /\ stack = <<>> /\ result = <<>> /\ shadePc = "off"

TransformIdle ==
    /\ ent = <<>> /\ entPc = "off" /\ entOp = <<>>

GroupIdle ==
    /\ tree = <<>> /\ grpPc = <<>> /\ grpXs = <<>> /\ grpRes = "none"

TupleIdle ==
    /\ tupPc = "off" /\ tupIn = <<>> /\ tupOut = <<>>

AppIdle ==
    /\ appPc = "off" /\ events = 0 /\ active_object = <<>>
    /\ preview_up_to_date = FALSE /\ thread_just_finished_preview = FALSE
    /\ preview_image = <<>> /\ last_preview = <<>> /\ channel = <<>>
    /\ previewThread = [pc |-> "off", wd |-> <<>>]
    /\ rendering = FALSE /\ rendering_progress = 0
    /\ renderThreads = <<>> /\ shown = <<>>

GeomIdle == TransformIdle /\ GroupIdle /\ TupleIdle /\ AppIdle

InitRender ==
    /\ world = new_default
    /\ cam \in [hsize : 1..MaxH, vsize : 1..MaxV]
    /\ lockReaders = 0
    /\ lockWriter = FALSE
    /\ edits = 0
    /\ tracker \in {0, StaleTracker}
    /\ parPc = "idle"
    /\ parWorld = new_default
    /\ image = <<>>
    /\ bands = <<>>
    /\ written = <<>>
    /\ seqPc = "idle"
    /\ seqWorld = new_default
    /\ seqImage = <<>>
    /\ seqPos = [x |-> 0, y |-> 0]
    /\ RayIdle
    /\ ShadeIdle
    /\ GeomIdle

(* The editor side of the RwLock: world.write() blocks while any guard is  *)
(* alive.                                                                  *)
EditorAcquire ==
    /\ edits < MaxEdits
    /\ lockReaders = 0
    /\ ~lockWriter
    /\ lockWriter' = TRUE
    /\ UNCHANGED <<world, cam, lockReaders, edits, tracker, parPc, parWorld,
                   image, bands, written, seqPc, seqWorld, seqImage, seqPos>>
    /\ UNCHANGED varsRay /\ UNCHANGED varsShade
    /\ UNCHANGED varsGeom

(* World::add_object through the write guard, which is then dropped *)
EditorMutate ==
    /\ lockWriter
    /\ \E object \in {Mirror, GlassSphere} : world' = add_object(world, object)
    /\ lockWriter' = FALSE
    /\ edits' = edits + 1
    /\ UNCHANGED <<cam, lockReaders, tracker, parPc, parWorld,
                   image, bands, written, seqPc, seqWorld, seqImage, seqPos>>
    /\ UNCHANGED varsRay /\ UNCHANGED varsShade
    /\ UNCHANGED varsGeom

(* Camera::render, entry: borrows the World, creates the canvas *)
SeqStart ==
    /\ seqPc = "idle"
    /\ ~lockWriter
    /\ seqPc' = "loop"
    /\ seqWorld' = world
    /\ seqImage' = CanvasNew(cam.hsize, cam.vsize)
    /\ seqPos' = [x |-> 0, y |-> 0]
    /\ UNCHANGED <<world, cam, lockReaders, lockWriter, edits, tracker, parPc,
                   parWorld, image, bands, written>>
    /\ UNCHANGED varsRay /\ UNCHANGED varsShade
    /\ UNCHANGED varsGeom

(* Camera::render, one iteration of the nested loop *)
SeqPixel ==
    /\ seqPc = "loop"
    /\ seqPos.y < cam.vsize
    /\ LET ray == ray_for_pixel(seqPos.x, seqPos.y)
           color == color_at_value(seqWorld, ray, DEFAULT_RECURSION_DEPTH)
       IN seqImage' = [seqImage EXCEPT
                         ![xy_to_1d(cam.hsize, seqPos.x, seqPos.y)] = color]
    /\ seqPos' = IF seqPos.x + 1 < cam.hsize
                 THEN [seqPos EXCEPT !.x = @ + 1]
                 ELSE [x |-> 0, y |-> seqPos.y + 1]
    /\ UNCHANGED <<world, cam, lockReaders, lockWriter, edits, tracker, parPc,
                   parWorld, image, bands, written, seqPc, seqWorld>>
    /\ UNCHANGED varsRay /\ UNCHANGED varsShade
    /\ UNCHANGED varsGeom

(* Camera::render returns the canvas *)
SeqReturn ==
    /\ seqPc = "loop"
    /\ seqPos.y >= cam.vsize
    /\ seqPc' = "done"
    /\ UNCHANGED <<world, cam, lockReaders, lockWriter, edits, tracker, parPc,
                   parWorld, image, bands, written, seqWorld, seqImage, seqPos>>
    /\ UNCHANGED varsRay /\ UNCHANGED varsShade
    /\ UNCHANGED varsGeom

(* mutant of ParReadLock: the read guard is a temporary, dropped at once *)
ParReadLockDropped ==
    /\ parPc = "idle"
    /\ seqPc = "done"
    /\ ~lockWriter
    /\ parWorld' = world
    /\ parPc' = "locked"
    /\ UNCHANGED <<world, cam, lockReaders, lockWriter, edits, tracker, image,
                   bands, written, seqPc, seqWorld, seqImage, seqPos>>
    /\ UNCHANGED varsRay /\ UNCHANGED varsShade
    /\ UNCHANGED varsGeom

(* parallel_render: world.read().unwrap(); the guard lives until the       *)
(* function returns                                                        *)
ParReadLock ==
    /\ parPc = "idle"
    /\ seqPc = "done"
    /\ ~lockWriter
    /\ lockReaders' = lockReaders + 1
    /\ parWorld' = world
    /\ parPc' = "locked"
    /\ UNCHANGED <<world, cam, lockWriter, edits, tracker, image, bands,
                   written, seqPc, seqWorld, seqImage, seqPos>>
    /\ UNCHANGED varsRay /\ UNCHANGED varsShade
    /\ UNCHANGED varsGeom

(* mutant of ParResetTracker: the store of 0 is missing *)
ParKeepTracker ==
    /\ parPc = "locked"
    /\ parPc' = "stored"
    /\ UNCHANGED <<world, cam, lockReaders, lockWriter, edits, tracker,
                   parWorld, image, bands, written, seqPc, seqWorld, seqImage,
                   seqPos>>
    /\ UNCHANGED varsRay /\ UNCHANGED varsShade
    /\ UNCHANGED varsGeom

(* parallel_render: tracker.store(0) *)
ParResetTracker ==
    /\ parPc = "locked"
    /\ tracker' = 0
    /\ parPc' = "stored"
    /\ UNCHANGED <<world, cam, lockReaders, lockWriter, edits, parWorld, image,
                   bands, written, seqPc, seqWorld, seqImage, seqPos>>
    /\ UNCHANGED varsRay /\ UNCHANGED varsShade
    /\ UNCHANGED varsGeom

(* parallel_render: Canvas::new and the split into bands, every band's     *)
(* closure ready to run at row 0, col 0                                    *)
ParSplit ==
    /\ parPc = "stored"
    /\ image' = CanvasNew(cam.hsize, cam.vsize)
    /\ bands' = [i \in 0..(NumBands(cam) - 1) |-> [row |-> 0, col |-> 0]]
    /\ written' = [k \in 0..(NumBands(cam) * ChunkSize(cam) - 1) |-> <<>>]
    /\ parPc' = "bands"
    /\ UNCHANGED <<world, cam, lockReaders, lockWriter, edits, tracker,
                   parWorld, seqPc, seqWorld, seqImage, seqPos>>
    /\ UNCHANGED varsRay /\ UNCHANGED varsShade
    /\ UNCHANGED varsGeom

(* mutant of InBand: the bounds check always passes *)
InBandAlways(c, i, row, col) == TRUE

(* the bounds check of the band closure: (row * hsize) + col < band.len() *)
InBand(c, i, row, col) == (row * c.hsize) + col < BandLen(c, i)

(* mutant of BandRay: the band's row offset is forgotten *)
BandRayNoOffset(i, row, col) == ray_for_pixel(col, row)

(* the ray of the band closure: self.ray_for_pixel(col, row + i * BAND_SIZE) *)
BandRay(i, row, col) == ray_for_pixel(col, row + i * BAND_SIZE)

(* One iteration of the closure of band i at (row, col): the ray, the      *)
(* bounds check, the write into the band's chunk and the fetch_add.  The   *)
(* chunk is private to the band, the fetch_add is the one shared access.   *)
BandPixel(i) ==
    /\ parPc = "bands"
    /\ i \in DOMAIN bands
    /\ bands[i].row < BAND_SIZE
    /\ LET row == bands[i].row
           col == bands[i].col
           ray == BandRay(i, row, col)
           k   == BandStart(cam, i) + (row * cam.hsize) + col
       IN IF InBand(cam, i, row, col)
          THEN /\ image' = [image EXCEPT
                              ![k] = color_at_value(world, ray, DEFAULT_RECURSION_DEPTH)]
               /\ written' = [written EXCEPT ![k] = Append(@, i)]
               /\ tracker' = tracker + 1
          ELSE UNCHANGED <<image, written, tracker>>
    /\ bands' = [bands EXCEPT ![i] =
                    IF bands[i].col + 1 < cam.hsize
                    THEN [@ EXCEPT !.col = @ + 1]
                    ELSE [row |-> bands[i].row + 1, col |-> 0]]
    /\ UNCHANGED <<world, cam, lockReaders, lockWriter, edits, parPc, parWorld,
                   seqPc, seqWorld, seqImage, seqPos>>
    /\ UNCHANGED varsRay /\ UNCHANGED varsShade
    /\ UNCHANGED varsGeom

BandsFinished == \A i \in DOMAIN bands : bands[i].row = BAND_SIZE

(* parallel_render returns the canvas once for_each has joined every band; *)
(* the read guard is dropped                                               *)
ParReturn ==
    /\ parPc = "bands"
    /\ BandsFinished
    /\ parPc' = "done"
    /\ lockReaders' = lockReaders - 1
    /\ UNCHANGED <<world, cam, lockWriter, edits, tracker, parWorld, image,
                   bands, written, seqPc, seqWorld, seqImage, seqPos>>
    /\ UNCHANGED varsRay /\ UNCHANGED varsShade
    /\ UNCHANGED varsGeom

NextRender ==
    \/ EditorAcquire
    \/ EditorMutate
    \/ SeqStart
    \/ SeqPixel
    \/ SeqReturn
    \/ ParReadLock
    \/ ParResetTracker
    \/ ParSplit
    \/ \E i \in 0..(NumBands(cam) - 1) : BandPixel(i)
    \/ ParReturn

Spec == InitRender /\ [][NextRender]_vars

----------------------------------------------------------------------------
(* Claims about the render drivers *)

(* Canvas::pixel_at *)
pixel_at(img, width, x, y) == img[xy_to_1d(width, x, y)]

RenderingPcs == {"locked", "stored", "bands"}

WrittenPixels == {k \in DOMAIN written : written[k] # <<>>}

(* C1: once render and parallel_render have both returned for the same     *)
(* World and Camera, their canvases hold the same color at every pixel     *)
(* (x, y), whatever the interleaving of the bands was.                     *)
Thm_C1 ==
    (seqPc = "done" /\ parPc = "done" /\ seqWorld = parWorld) =>
        \A x \in 0..(cam.hsize - 1) : \A y \in 0..(cam.vsize - 1) :
            pixel_at(image, cam.hsize, x, y) = pixel_at(seqImage, cam.hsize, x, y)

(* C1 witness: both renders returned for the same World, two bands, the    *)
(* second one shorter than BAND_SIZE rows                                  *)
Wit_C1 ==
    /\ seqPc = "done" /\ parPc = "done" /\ seqWorld = parWorld
    /\ cam.vsize > BAND_SIZE /\ cam.vsize % BAND_SIZE # 0 /\ cam.hsize > 1
    /\ pixel_at(image, cam.hsize, 1, cam.vsize - 1) =
           color_at_value(world, ray_for_pixel(1, cam.vsize - 1), DEFAULT_RECURSION_DEPTH)

(* C2: no pixel index is written twice, a band writes only indices of its  *)
(* own chunk and inside the canvas, every written pixel holds the color of *)
(* pixel (col, row + i*BAND_SIZE), and when parallel_render returns every  *)
(* index of [0, hsize*vsize) has been written exactly once.                *)
Thm_C2 ==
    (parPc \in {"bands", "done"}) =>
        /\ \A k \in DOMAIN written :
              /\ Len(written[k]) <= 1
              /\ written[k] # <<>> =>
                   /\ k < NumPixels(cam)
                   /\ written[k][1] = k \div ChunkSize(cam)
                   /\ BandStart(cam, written[k][1]) <= k
                   /\ k < BandStart(cam, written[k][1]) + BandLen(cam, written[k][1])
                   /\ image[k] = color_at_value(parWorld,
                                    ray_for_pixel(k % cam.hsize, k \div cam.hsize),
                                    DEFAULT_RECURSION_DEPTH)
        /\ parPc = "done" => \A k \in 0..(NumPixels(cam) - 1) : Len(written[k]) = 1

(* C2 witness: the render returned after a last band of fewer than         *)
(* BAND_SIZE rows wrote its pixels                                         *)
Wit_C2 ==
    /\ parPc = "done"
    /\ NumBands(cam) = 2
    /\ BandLen(cam, 1) < ChunkSize(cam)
    /\ written[NumPixels(cam) - 1] = <<1>>
    /\ written[0] = <<0>>

(* C3: the counter is 0 before any pixel is computed, equals the number of *)
(* pixels written so far during the render (one increment per written      *)
(* pixel), never exceeds hsize*vsize, equals hsize*vsize at return, and no *)
(* step of the render decreases it.                                        *)
Thm_C3 ==
    /\ [](/\ parPc = "stored" => tracker = 0
          /\ parPc \in {"bands", "done"} =>
                /\ tracker = Cardinality(WrittenPixels)
                /\ tracker <= NumPixels(cam)
          /\ parPc = "done" => tracker = NumPixels(cam))
    /\ [][(parPc \in {"stored", "bands"}) => (tracker' >= tracker)]_vars

(* C3 witness: a render that started with a stale counter is half way *)
Wit_C3 ==
    /\ parPc = "bands"
    /\ tracker > 0 /\ tracker < NumPixels(cam)
    /\ NumPixels(cam) > StaleTracker
    /\ \E i \in DOMAIN bands : \E j \in DOMAIN bands :
          i # j /\ bands[i].row > 0 /\ bands[j].row > 0

----------------------------------------------------------------------------
(* The World pipeline of one ray: intersect_world, hit_world,              *)
(* prepare_computations, is_shadowed                                       *)

(* t values a ray can meet an object at *)
TValues == {-1, 0, 1, 2}

(* What Object::intersect can return for one object: no, one (plane, cone) *)
(* or two intersections, in any order (cylinder caps are pushed last).     *)
TLists == {<<>>} \cup {<<t>> : t \in TValues}
                 \cup {<<t1, t2>> : t1 \in TValues, t2 \in TValues}

SeqsUpTo(S, n) == UNION {[1..k -> S] : k \in 0..n}

(* The transforms (and shapes) of the World's objects: a ray meets objects *)
(* of equal transform and shape at the same t values.                      *)
XfOf(w) == {w.objects[i].xf : i \in DOMAIN w.objects}

black == 0

(* Intersection::new(t, object) for every t of Object::intersect; `src` is *)
(* history: the index of the World object that was intersected, which the  *)
(* program does not store.                                                 *)
ObjectIntersect(object, src, ts) ==
    [k \in 1..Len(ts) |-> [t_value |-> ts[k], object |-> object, src |-> src]]

(* derive(PartialEq) of Intersection: t_value and object, by value *)
IntersectionEq(a, b) == a.t_value = b.t_value /\ a.object = b.object

(* the loop of intersect_world: extend by every object's intersections *)
RECURSIVE CollectIntersections(_, _, _)
CollectIntersections(w, geo, i) ==
    IF i > Len(w.objects) THEN <<>>
    ELSE ObjectIntersect(w.objects[i], i, geo[w.objects[i].xf])
            \o CollectIntersections(w, geo, i + 1)

(* insert x after the elements whose t is not greater: a stable insertion *)
RECURSIVE InsertByT(_, _)
InsertByT(sorted, x) ==
    IF sorted = <<>> THEN <<x>>
    ELSE IF x.t_value < Head(sorted).t_value THEN <<x>> \o sorted
    ELSE <<Head(sorted)>> \o InsertByT(Tail(sorted), x)

(* intersections.sort_by(|a, b| a.partial_cmp(b).unwrap()): stable, by t *)
RECURSIVE SortByT(_)
SortByT(xs) ==
    IF xs = <<>> THEN <<>>
    ELSE InsertByT(SortByT(SubSeq(xs, 1, Len(xs) - 1)), xs[Len(xs)])

(* mutant of intersect_world: the sort is missing *)
intersect_world_unsorted(w, geo) == CollectIntersections(w, geo, 1)

(* World::intersect_world *)
intersect_world(w, geo) == SortByT(CollectIntersections(w, geo, 1))

RECURSIVE FirstNonNegative(_, _)
FirstNonNegative(xs, i) ==
    IF i > Len(xs) THEN 0
    ELSE IF xs[i].t_value >= 0 THEN i
    ELSE FirstNonNegative(xs, i + 1)

(* mutant of hit_world: t = 0 does not count as a hit *)
RECURSIVE FirstPositive(_, _)
FirstPositive(xs, i) ==
    IF i > Len(xs) THEN 0
    ELSE IF xs[i].t_value > 0 THEN i
    ELSE FirstPositive(xs, i + 1)

hit_world_positive(xs) == IF xs = <<>> THEN 0 ELSE FirstPositive(xs, 1)

(* World::hit_world: 0 stands for None, k for Some(xs[k]) *)
hit_world(xs) == IF xs = <<>> THEN 0 ELSE FirstNonNegative(xs, 1)

(* the refractive index of the last container, 1.0 when there is none *)
LastIndex(containers) ==
    IF containers = <<>> THEN 10
    ELSE containers[Len(containers)].refractive_index

(* containers.remove(x) for the first x with containers[x] == obj *)
RECURSIVE RemoveFirst(_, _)
RemoveFirst(containers, obj) ==
    IF containers = <<>> THEN <<>>
    ELSE IF Head(containers) = obj THEN Tail(containers)
    ELSE <<Head(containers)>> \o RemoveFirst(Tail(containers), obj)

Contains(containers, obj) == \E x \in DOMAIN containers : containers[x] = obj

(* the body of the loop over intersection_list, from element k on *)
RECURSIVE Replay(_, _, _, _, _)
Replay(intersection, xs, k, containers, n1n2) ==
    IF k > Len(xs) THEN n1n2
    ELSE LET i == xs[k]
             n1 == IF IntersectionEq(i, intersection)
                   THEN LastIndex(containers) ELSE n1n2.n1
             obj == i.object
             next == IF Contains(containers, obj)
                     THEN RemoveFirst(containers, obj)
                     ELSE Append(containers, obj)
         IN IF IntersectionEq(i, intersection)
            THEN [n1 |-> n1, n2 |-> LastIndex(next)]
            ELSE Replay(intersection, xs, k + 1, next, [n1n2 EXCEPT !.n1 = n1])

(* prepare_computations: the hit's object and t, and the refractive        *)
(* indices n1, n2 *)
prepare_computations(intersection, xs) ==
    LET n == Replay(intersection, xs, 1, <<>>, [n1 |-> 10, n2 |-> 10])
    IN [object |-> intersection.object, t_value |-> intersection.t_value,
        n1 |-> n.n1, n2 |-> n.n2]

(* World::is_shadowed for a point whose ray toward the first light meets   *)
(* the objects as geo says, the light being at `distance`; indexing        *)
(* lights[0] of an empty light list panics.                                *)
is_shadowed(w, geo, distance) ==
    IF w.lights = <<>> THEN "panic"
    ELSE LET xs == intersect_world(w, geo)
             hit == hit_world(xs)
         IN IF hit # 0 /\ xs[hit].t_value < distance /\ xs[hit].object.casts_shadow
            THEN "true" ELSE "false"

----------------------------------------------------------------------------
(* SpecRay: color_at up to shade_hit, and is_shadowed, on one ray *)

RenderIdle ==
    /\ cam = [hsize |-> 1, vsize |-> 1]
    /\ lockReaders = 0 /\ lockWriter = FALSE /\ edits = 0 /\ tracker = 0
    /\ parPc = "off" /\ parWorld = new_default /\ image = <<>> /\ bands = <<>>
    /\ written = <<>> /\ seqPc = "off" /\ seqWorld = new_default
    /\ seqImage = <<>> /\ seqPos = [x |-> 0, y |-> 0]

InitRay ==
    /\ world \in {NewWorld(objects, <<Light>>) : objects \in SeqsUpTo(Objects, MaxObjects)}
    /\ rayGeo \in [XfOf(world) -> TLists]
    /\ rayPc = "start"
    /\ rayXs = <<>>
    /\ rayHit = 0
    /\ rayComps = <<>>
    /\ rayDist = 0
    /\ rayShadow = "none"
    /\ rayColor = -1
    /\ RenderIdle
    /\ ShadeIdle
    /\ GeomIdle

(* color_at: let intersections = self.intersect_world(ray) *)
RayIntersect ==
    /\ rayPc = "start"
    /\ rayXs' = intersect_world(world, rayGeo)
    /\ rayPc' = "intersected"
    /\ UNCHANGED <<world, rayGeo, rayHit, rayComps, rayDist, rayShadow, rayColor>>
    /\ UNCHANGED varsRender /\ UNCHANGED varsShade
    /\ UNCHANGED varsGeom

(* color_at: self.hit_world(&intersections) *)
RayHit ==
    /\ rayPc = "intersected"
    /\ rayHit' = hit_world(rayXs)
    /\ rayPc' = "hit"
    /\ UNCHANGED <<world, rayGeo, rayXs, rayComps, rayDist, rayShadow, rayColor>>
    /\ UNCHANGED varsRender /\ UNCHANGED varsShade
    /\ UNCHANGED varsGeom

(* color_at: if let Some(intersection) = ... prepare_computations *)
RayPrepare ==
    /\ rayPc = "hit"
    /\ rayHit # 0
    /\ rayComps' = prepare_computations(rayXs[rayHit], rayXs)
    /\ rayPc' = "prepared"
    /\ UNCHANGED <<world, rayGeo, rayXs, rayHit, rayDist, rayShadow, rayColor>>
    /\ UNCHANGED varsRender /\ UNCHANGED varsShade
    /\ UNCHANGED varsGeom

(* color_at: else black() *)
RayMiss ==
    /\ rayPc = "hit"
    /\ rayHit = 0
    /\ rayColor' = black
    /\ rayPc' = "miss"
    /\ UNCHANGED <<world, rayGeo, rayXs, rayHit, rayComps, rayDist, rayShadow>>
    /\ UNCHANGED varsRender /\ UNCHANGED varsShade
    /\ UNCHANGED varsGeom

(* is_shadowed(point), the ray being the one from the point toward the     *)
(* first light *)
RayShadow ==
    /\ rayPc = "start"
    /\ \E distance \in 1..MaxDist :
          /\ rayDist' = distance
          /\ rayShadow' = is_shadowed(world, rayGeo, distance)
    /\ rayPc' = "shadow"
    /\ UNCHANGED <<world, rayGeo, rayXs, rayHit, rayComps, rayColor>>
    /\ UNCHANGED varsRender /\ UNCHANGED varsShade
    /\ UNCHANGED varsGeom

NextRay ==
    \/ RayIntersect
    \/ RayHit
    \/ RayPrepare
    \/ RayMiss
    \/ RayShadow

SpecRay == InitRay /\ [][NextRay]_vars

----------------------------------------------------------------------------
(* Claims about the one-ray pipeline *)

RayTraced == rayPc \in {"intersected", "hit", "prepared", "miss"}

(* Reference for C5: the objects the ray is inside of after the first k    *)
(* intersections, told apart by identity (src), the last entered last.     *)
RECURSIVE InsideAfter(_, _)
InsideAfter(xs, k) ==
    IF k = 0 THEN <<>>
    ELSE LET prev == InsideAfter(xs, k - 1)
             s == xs[k].src
         IN IF \E j \in DOMAIN prev : prev[j] = s
            THEN SelectSeq(prev, LAMBDA v : v # s)
            ELSE Append(prev, s)

MediumIndex(w, inside) ==
    IF inside = <<>> THEN 10
    ELSE w.objects[inside[Len(inside)]].refractive_index

(* every object the ray meets is a solid: entered once and left later *)
Solids ==
    \A x \in DOMAIN rayGeo :
        \/ rayGeo[x] = <<>>
        \/ Len(rayGeo[x]) = 2 /\ rayGeo[x][1] < rayGeo[x][2]

(* C5: for nested and overlapping solids, prepare_computations yields as   *)
(* n1 and n2 the refractive indices of the media on the two sides of the   *)
(* hit surface: n1 that of the solid entered last among those the ray is   *)
(* inside of before the hit, n2 that of the one after it (1.0 for none).   *)
Cex_C5 ==
    (rayPc = "prepared" /\ Solids) =>
        /\ rayComps.n1 = MediumIndex(world, InsideAfter(rayXs, rayHit - 1))
        /\ rayComps.n2 = MediumIndex(world, InsideAfter(rayXs, rayHit))

(* C6: hit_world returns the first element with t >= 0 (t = 0 counts,      *)
(* the earlier of equal t values wins), None when the list is empty or     *)
(* every t is negative, and color_at is black when there is no hit.        *)
Thm_C6 ==
    rayPc \in {"hit", "prepared", "miss"} =>
        /\ rayHit = 0 <=> \A k \in DOMAIN rayXs : rayXs[k].t_value < 0
        /\ rayHit # 0 =>
              /\ rayHit \in DOMAIN rayXs
              /\ rayXs[rayHit].t_value >= 0
              /\ \A j \in 1..(rayHit - 1) : rayXs[j].t_value < 0
        /\ rayPc = "miss" => rayHit = 0 /\ rayColor = black
        /\ rayPc = "prepared" => rayHit # 0

(* C6 witness: the hit is at t = 0, after a negative t and before another  *)
(* intersection at t = 0                                                   *)
Wit_C6 ==
    /\ rayPc = "hit"
    /\ rayHit > 1
    /\ rayHit < Len(rayXs)
    /\ rayXs[rayHit].t_value = 0
    /\ rayXs[rayHit + 1].t_value = 0

Occurrences(xs, t, src) ==
    Cardinality({k \in DOMAIN xs : xs[k].t_value = t /\ xs[k].src = src})

OccurrencesT(ts, t) == Cardinality({k \in DOMAIN ts : ts[k] = t})

(* C7: intersect_world returns each object's intersections, every one as   *)
(* often as the object's intersect returns it and nothing else, negative   *)
(* t included, in non-decreasing order of t.                               *)
Thm_C7 ==
    RayTraced =>
        /\ \A k \in DOMAIN rayXs :
              /\ rayXs[k].src \in DOMAIN world.objects
              /\ rayXs[k].object = world.objects[rayXs[k].src]
              /\ rayXs[k].t_value \in TValues
        /\ \A src \in DOMAIN world.objects : \A t \in TValues :
              Occurrences(rayXs, t, src)
                  = OccurrencesT(rayGeo[world.objects[src].xf], t)
        /\ \A k \in 1..(Len(rayXs) - 1) :
              rayXs[k].t_value <= rayXs[k + 1].t_value

(* C7 witness: two objects with two intersections each, some negative,     *)
(* which the objects did not return in order of t                          *)
Wit_C7 ==
    /\ rayPc = "intersected"
    /\ Len(world.objects) = 2
    /\ Len(rayXs) = 4
    /\ rayXs # CollectIntersections(world, rayGeo, 1)
    /\ rayXs[1].t_value < 0
    /\ rayXs[4].t_value > 0

(* C9: is_shadowed is true if and only if some intersection of the ray     *)
(* toward the first light has 0 <= t < distance to the light and belongs   *)
(* to an object that casts a shadow.                                       *)
Cex_C9 ==
    rayPc = "shadow" =>
        (rayShadow = "true" <=>
            \E k \in DOMAIN intersect_world(world, rayGeo) :
                LET i == intersect_world(world, rayGeo)[k]
                IN /\ 0 <= i.t_value
                   /\ i.t_value < rayDist
                   /\ i.object.casts_shadow)

----------------------------------------------------------------------------
(* SpecShade: the recursion of color_at through shade_hit, reflected_color *)
(* and refracted_color, as a stack of color_at frames                      *)

MaxRemaining == 2

(* What a primary or secondary ray can meet an object at: nothing, a solid *)
(* it starts inside of, a solid in front of it.                            *)
ShadeTLists == {<<>>, <<-1, 1>>, <<1, 2>>}

(* the rays color_at is called with: by the renderer, by reflected_color  *)
(* (Ray::new(comps.over_point, comps.reflectv)) and by refracted_color     *)
(* (Ray::new(comps.under_point, direction))                                *)
PrimaryRay == [origin |-> "from", direction |-> "pixel"]

ReflectedRay == [origin |-> "over_point", direction |-> "reflectv"]

RefractedRay == [origin |-> "under_point", direction |-> "direction"]

(* a call color_at(ray, remaining) that has not run yet; reflections and   *)
(* refractions are the locals of its shade_hit, sin2_t whether             *)
(* refracted_color found sin2_t > 1.0, sum the color shade_hit returns     *)
Frame(ray, remaining) ==
    [remaining |-> remaining, pc |-> "color_at", comps |-> <<>>, ray |-> ray,
     reflections |-> <<>>, refractions |-> <<>>, sin2_t |-> <<>>, sum |-> <<>>]

Top == stack[Len(stack)]

SetTop(frame) == [stack EXCEPT ![Len(stack)] = frame]

(* The scenes color_at is followed through: none and one object of every   *)
(* kind, two reflective surfaces facing each other, glass in glass, a      *)
(* mirror behind glass, and two equal glass spheres.                       *)
ShadeScenes ==
    {<<>>, <<DefaultObject>>, <<Mirror>>, <<GlassSphere>>, <<DenseGlass>>,
     <<Mirror, GlassSphere>>, <<GlassSphere, DenseGlass>>,
     <<DenseGlass, Mirror>>, <<GlassSphere, GlassSphere>>}

InitShade ==
    /\ world \in {NewWorld(objects, lights) :
                      objects \in ShadeScenes,
                      lights \in {<<>>, <<Light>>}}
    /\ stack \in {<<Frame(PrimaryRay, remaining)>> : remaining \in 0..MaxRemaining}
    /\ result = <<>>
    /\ shadePc = "running"
    /\ RayIdle
    /\ RenderIdle
    /\ GeomIdle

(* color_at: intersect_world, hit_world, then prepare_computations for a   *)
(* hit and black for none                                                  *)
ColorAt ==
    /\ shadePc = "running"
    /\ Top.pc = "color_at"
    /\ \E geo \in [XfOf(world) -> ShadeTLists] :
          LET intersections == intersect_world(world, geo)
              hit == hit_world(intersections)
          IN IF hit # 0
             THEN stack' = SetTop([Top EXCEPT
                      !.pc = "shade_hit",
                      !.comps = <<prepare_computations(intersections[hit],
                                                       intersections)>>])
             ELSE stack' = SetTop([Top EXCEPT !.pc = "return"])
    /\ UNCHANGED <<world, result, shadePc>>
    /\ UNCHANGED varsRender /\ UNCHANGED varsRay
    /\ UNCHANGED varsGeom

(* shade_hit: is_shadowed(comps.over_point) and lighting(.., lights[0], ..) *)
ShadeHit ==
    /\ shadePc = "running"
    /\ Top.pc = "shade_hit"
    /\ \E geo \in [XfOf(world) -> ShadeTLists] : \E distance \in 1..MaxDist :
          IF is_shadowed(world, geo, distance) = "panic"
          THEN shadePc' = "panic" /\ UNCHANGED stack
          ELSE /\ stack' = SetTop([Top EXCEPT !.pc = "reflected_color"])
               /\ UNCHANGED shadePc
    /\ UNCHANGED <<world, result>>
    /\ UNCHANGED varsRender /\ UNCHANGED varsRay
    /\ UNCHANGED varsGeom

(* mutant of ReflectsNothing: the test of remaining is missing *)
ReflectsWithoutBudget(comps, remaining) == comps.object.reflective = 0

(* reflected_color: the two early returns of black *)
ReflectsNothing(comps, remaining) ==
    remaining < 1 \/ comps.object.reflective = 0

(* reflected_color: black, or color_at(ray, remaining - 1) * reflective.   *)
(* remaining is unsigned; the subtraction is only reached with             *)
(* remaining >= 1.                                                         *)
ReflectedColor ==
    /\ shadePc = "running"
    /\ Top.pc = "reflected_color"
    /\ IF ReflectsNothing(Top.comps[1], Top.remaining)
       THEN stack' = SetTop([Top EXCEPT !.pc = "refracted_color",
                                        !.reflections = <<"black">>])
       ELSE /\ Len(stack) <= MaxRemaining + 1
            /\ stack' = Append(SetTop([Top EXCEPT !.pc = "reflected_wait"]),
                               Frame(ReflectedRay, Top.remaining - 1))
    /\ UNCHANGED <<world, result, shadePc>>
    /\ UNCHANGED varsRender /\ UNCHANGED varsRay
    /\ UNCHANGED varsGeom

(* mutant of RefractsNothing: the test of remaining is missing *)
RefractsWithoutBudget(comps, remaining) == comps.object.transparency = 0

(* refracted_color: the first early return of black *)
RefractsNothing(comps, remaining) ==
    comps.object.transparency = 0 \/ remaining = 0

(* sin2_t = (n1 / n2)^2 * (1 - cos_i^2) can exceed 1 only when n1 > n2 *)
TotalInternalReflection(comps) ==
    IF comps.n1 > comps.n2 THEN BOOLEAN ELSE {FALSE}

(* mutant of Blends: one of the two properties is enough *)
BlendsEither(object) == object.reflective > 0 \/ object.transparency > 0

(* shade_hit: the test that chooses between the two sums *)
Blends(object) == object.reflective > 0 /\ object.transparency > 0

(* shade_hit: clr + (reflections * reflectance) + (refractions * (1.0 -    *)
(* reflectance)), or clr + reflections + refractions; `times` is the       *)
(* factor a term is multiplied with, <<>> for none                         *)
shade_hit(comps, reflections, refractions) ==
    IF Blends(comps.object)
    THEN <<[color |-> <<"clr">>, times |-> <<>>],
           [color |-> reflections, times |-> <<"reflectance">>],
           [color |-> refractions, times |-> <<"1.0 - reflectance">>]>>
    ELSE <<[color |-> <<"clr">>, times |-> <<>>],
           [color |-> reflections, times |-> <<>>],
           [color |-> refractions, times |-> <<>>]>>

(* refracted_color: black, or color_at(refract_ray, remaining - 1) *       *)
(* transparency; shade_hit then adds the three colors up and returns.      *)
RefractedColor ==
    /\ shadePc = "running"
    /\ Top.pc = "refracted_color"
    /\ \E sin2_t_above_1 \in TotalInternalReflection(Top.comps[1]) :
          IF RefractsNothing(Top.comps[1], Top.remaining)
          THEN stack' = SetTop([Top EXCEPT
                          !.pc = "return",
                          !.refractions = <<"black">>,
                          !.sum = shade_hit(Top.comps[1], Top.reflections, <<"black">>)])
          ELSE IF sin2_t_above_1
          THEN stack' = SetTop([Top EXCEPT
                          !.pc = "return",
                          !.sin2_t = <<TRUE>>,
                          !.refractions = <<"black">>,
                          !.sum = shade_hit(Top.comps[1], Top.reflections, <<"black">>)])
          ELSE /\ Len(stack) <= MaxRemaining + 1
               /\ stack' = Append(SetTop([Top EXCEPT !.pc = "refracted_wait",
                                                     !.sin2_t = <<FALSE>>]),
                                  Frame(RefractedRay, Top.remaining - 1))
    /\ UNCHANGED <<world, result, shadePc>>
    /\ UNCHANGED varsRender /\ UNCHANGED varsRay
    /\ UNCHANGED varsGeom

(* the color a finished frame returns: black for no hit, else shade_hit's *)
ColorOf(frame) ==
    IF frame.comps = <<>> THEN <<"black">>
    ELSE <<"shade_hit", frame.comps[1].object>>

(* mutant of Scaled: the factor is dropped *)
Unscaled(clr, factor) == clr

(* clr * reflective, color_at(..) * transparency *)
Scaled(clr, factor) == <<"times", clr, factor>>

(* color_at returns: to the caller of the outermost call, or into the      *)
(* reflected_color or refracted_color that made the call                   *)
Return ==
    /\ shadePc = "running"
    /\ Top.pc = "return"
    /\ IF Len(stack) = 1
       THEN /\ result' = ColorOf(Top)
            /\ shadePc' = "done"
            /\ stack' = <<>>
       ELSE LET caller == stack[Len(stack) - 1]
            IN /\ stack' = [SubSeq(stack, 1, Len(stack) - 1) EXCEPT
                      ![Len(stack) - 1] =
                          IF caller.pc = "reflected_wait"
                          THEN [caller EXCEPT
                                  !.pc = "refracted_color",
                                  !.reflections =
                                      Scaled(ColorOf(Top), caller.comps[1].object.reflective)]
                          ELSE [caller EXCEPT
                                  !.pc = "return",
                                  !.refractions =
                                      Scaled(ColorOf(Top), caller.comps[1].object.transparency),
                                  !.sum = shade_hit(caller.comps[1], caller.reflections,
                                              Scaled(ColorOf(Top),
                                                     caller.comps[1].object.transparency))]]
               /\ UNCHANGED <<result, shadePc>>
    /\ UNCHANGED world
    /\ UNCHANGED varsRender /\ UNCHANGED varsRay
    /\ UNCHANGED varsGeom

NextShade ==
    \/ ColorAt
    \/ ShadeHit
    \/ ReflectedColor
    \/ RefractedColor
    \/ Return

SpecShade == InitShade /\ [][NextShade]_vars

(* color_at runs on one thread that nothing holds up *)
SpecShadeFair == SpecShade /\ WF_vars(NextShade)

----------------------------------------------------------------------------
(* Claims about the recursion of color_at *)

(* the frames of the chain: each secondary call has one less than its      *)
(* caller, the caller had at least 1, and nothing is below 0               *)
ChainBounded ==
    shadePc = "running" =>
        /\ \A k \in DOMAIN stack :
              /\ stack[k].remaining >= 0
              /\ k > 1 =>
                    /\ stack[k].remaining = stack[k - 1].remaining - 1
                    /\ stack[k - 1].remaining >= 1
                    /\ stack[k - 1].pc \in {"reflected_wait", "refracted_wait"}
        /\ Len(stack) - 1 <= stack[1].remaining

(* a step that makes a secondary call *)
SecondaryCall == shadePc = "running" /\ Len(stack') > Len(stack)

(* C8: color_at(ray, remaining) terminates; each secondary call gets       *)
(* remaining - 1, none is made at remaining = 0, remaining never goes      *)
(* below 0, and a chain of secondary rays has at most `remaining` nested   *)
(* calls.                                                                  *)
Thm_C8 ==
    /\ []ChainBounded
    /\ [][SecondaryCall =>
            /\ Top.remaining >= 1
            /\ stack'[Len(stack')].remaining = Top.remaining - 1]_vars
    /\ <>(shadePc \in {"done", "panic"})

(* C8 witness: a chain of reflections as long as the budget allows has     *)
(* arrived at a reflective surface with remaining = 0, and reflected_color *)
(* has returned black without a call                                       *)
Wit_C8 ==
    /\ shadePc = "running"
    /\ Len(stack) = MaxRemaining + 1
    /\ \A k \in 1..MaxRemaining : stack[k].pc = "reflected_wait"
    /\ Top.remaining = 0
    /\ Top.pc = "refracted_color"
    /\ Top.comps[1].object.reflective > 0

(* C10: color_at returns a color for any World without aborting, also for  *)
(* a World with an empty light list.                                       *)
Cex_C10 == shadePc # "panic"

----------------------------------------------------------------------------
(* Numbers, matrices and transformations.  An f64 is a fixed-point integer *)
(* counting steps of 0.00001: One is 1.0, EPSILON is one step.             *)

One == 100000

EPSILON == 1

Abs(a) == IF a < 0 THEN -a ELSE a

(* a * b of two f64, rounded toward 0 to a step: with |a| = aq + ar and    *)
(* |b| = bq + br split into whole and fractional parts, no intermediate    *)
(* product leaves the 32-bit integers                                      *)
FMulOf[ab \in Int \X Int] ==
    LET aq == Abs(ab[1]) \div One
        ar == Abs(ab[1]) % One
        bq == Abs(ab[2]) \div One
        br == Abs(ab[2]) % One
        p == aq * bq * One + aq * br + ar * bq
               + (ar * (br \div 1000) + (ar * (br % 1000)) \div 1000) \div 100
    IN IF (ab[1] < 0) = (ab[2] < 0) THEN p ELSE -p

(* 0 * b and 1 * b need no rounding *)
FMul(a, b) ==
    IF a = 0 THEN 0 ELSE IF a = One THEN b ELSE FMulOf[<<a, b>>]

(* Matrix4::identity *)
identity ==
    << <<One, 0, 0, 0>>, <<0, One, 0, 0>>, <<0, 0, One, 0>>, <<0, 0, 0, One>> >>

(* impl Mul<Matrix4> for Matrix4: entry (i, j) is the sum over a of       *)
(* m[i][a] * other[a][j]                                                   *)
MulEntry(m, other, i, j) ==
      FMul(m[i][1], other[1][j]) + FMul(m[i][2], other[2][j])
    + FMul(m[i][3], other[3][j]) + FMul(m[i][4], other[4][j])

MulRow(m, other, i) ==
    <<MulEntry(m, other, i, 1), MulEntry(m, other, i, 2),
      MulEntry(m, other, i, 3), MulEntry(m, other, i, 4)>>

Matrix == Seq(Seq(Int))

MatMulOf[mo \in Matrix \X Matrix] ==
    <<MulRow(mo[1], mo[2], 1), MulRow(mo[1], mo[2], 2),
      MulRow(mo[1], mo[2], 3), MulRow(mo[1], mo[2], 4)>>

MatMul(m, other) == MatMulOf[<<m, other>>]

(* Matrix3::determinant of the rows r and columns c of m: cofactor         *)
(* expansion along the first column                                        *)
Det2(m, rows, cols) ==
    FMul(m[rows[1]][cols[1]], m[rows[2]][cols[2]]) - FMul(m[rows[2]][cols[1]], m[rows[1]][cols[2]])

Det3(m, rows, cols) ==
      FMul(m[rows[1]][cols[1]], Det2(m, <<rows[2], rows[3]>>, <<cols[2], cols[3]>>))
    - FMul(m[rows[2]][cols[1]], Det2(m, <<rows[1], rows[3]>>, <<cols[2], cols[3]>>))
    + FMul(m[rows[3]][cols[1]], Det2(m, <<rows[1], rows[2]>>, <<cols[2], cols[3]>>))

(* Matrix4::determinant: cofactor expansion along the first column *)
determinantOf[m \in Matrix] ==
      FMul(m[1][1], Det3(m, <<2, 3, 4>>, <<2, 3, 4>>))
    - FMul(m[2][1], Det3(m, <<1, 3, 4>>, <<2, 3, 4>>))
    + FMul(m[3][1], Det3(m, <<1, 2, 4>>, <<2, 3, 4>>))
    - FMul(m[4][1], Det3(m, <<1, 2, 3>>, <<2, 3, 4>>))

determinant(m) == determinantOf[m]

(* Matrix4::is_invertible: f64::abs(d) > 0.00001 *)
is_invertible(m) == Abs(determinant(m)) > EPSILON

(* transformations::translation, scaling, shearing *)
translation(x, y, z) ==
    << <<One, 0, 0, x>>, <<0, One, 0, y>>, <<0, 0, One, z>>, <<0, 0, 0, One>> >>

scaling(x, y, z) ==
    << <<x, 0, 0, 0>>, <<0, y, 0, 0>>, <<0, 0, z, 0>>, <<0, 0, 0, One>> >>

shearing(xy, xz, yx, yz, zx, zy) ==
    << <<One, xy, xz, 0>>, <<yx, One, yz, 0>>, <<zx, zy, One, 0>>,
       <<0, 0, 0, One>> >>

(* An angle is counted in quarter turns: rad = One is a rotation by pi/2.  *)
Cos(rad) == LET q == (rad \div One) % 4
            IN IF q = 0 THEN One ELSE IF q = 2 THEN -One ELSE 0

Sin(rad) == LET q == (rad \div One) % 4
            IN IF q = 1 THEN One ELSE IF q = 3 THEN -One ELSE 0

rotation_x(rad) ==
    << <<One, 0, 0, 0>>, <<0, Cos(rad), -Sin(rad), 0>>,
       <<0, Sin(rad), Cos(rad), 0>>, <<0, 0, 0, One>> >>

rotation_y(rad) ==
    << <<Cos(rad), 0, Sin(rad), 0>>, <<0, One, 0, 0>>,
       <<-Sin(rad), 0, Cos(rad), 0>>, <<0, 0, 0, One>> >>

rotation_z(rad) ==
    << <<Cos(rad), -Sin(rad), 0, 0>>, <<Sin(rad), Cos(rad), 0, 0>>,
       <<0, 0, One, 0>>, <<0, 0, 0, One>> >>

(* the 15 transform components of a new Object or Group *)
DefaultList ==
    <<0, 0, 0, One, One, One, 0, 0, 0, 0, 0, 0, 0, 0, 0>>

(* the matrix update_transform passes to set_transform; slot i of the      *)
(* source's list is list[i + 1]                                            *)
ComposedTransform(list) ==
    MatMul(MatMul(MatMul(MatMul(MatMul(
        translation(list[1], list[2], list[3]),
        scaling(list[4], list[5], list[6])),
        rotation_x(list[7])),
        rotation_y(list[8])),
        rotation_z(list[9])),
        shearing(list[10], list[11], list[12], list[13], list[14], list[15]))

----------------------------------------------------------------------------
(* SpecTransform: the transform of one Object or Group under its mutations *)

MaxValue == 2

(* the arguments the setters are called with: 0.0, 1.0, .. *)
SetterValues == {k * One : k \in 0..MaxValue}

(* the slots of the 15-component list the setters are called for:         *)
(* translate_x, scale_x, shear_xy, shear_yx (the source counts from 0)     *)
Slots == {0, 3, 9, 11}

(* Object::new / Group::new_empty: identity transform, default components *)
NewEntity ==
    [transformations_list |-> DefaultList,
     transform |-> identity,
     inverse_transform |-> <<"invert", identity>>,
     inverse_transform_transposed |-> <<"transpose", <<"invert", identity>>>>]

(* set_transform: the transform is stored, then invert() panics on a       *)
(* matrix that is not invertible, before the inverse is stored             *)
set_transform(e, m) ==
    IF is_invertible(m)
    THEN [e EXCEPT !.transform = m,
                   !.inverse_transform = <<"invert", m>>,
                   !.inverse_transform_transposed = <<"transpose", <<"invert", m>>>>]
    ELSE [e EXCEPT !.transform = m]

(* invert() has returned: the stored inverse is that of the transform *)
Inverted(e) == e.inverse_transform = <<"invert", e.transform>>

(* update_transform *)
update_transform(e) ==
    set_transform(e, ComposedTransform(e.transformations_list))

(* what a setter stores: scale_x, scale_y, scale_z store EPSILON for 0 *)
StoredValue(index, x) ==
    IF index \in {3, 4, 5} /\ x = 0 THEN EPSILON ELSE x

(* translate_x .. shear_zy: transformations_list[index] = x, then          *)
(* update_transform                                                        *)
add_to_transformation_list(e, index, x) ==
    update_transform([e EXCEPT !.transformations_list[index + 1] = @ + x])

set_transformation_list(e, index, x) ==
    update_transform(
        [e EXCEPT !.transformations_list[index + 1] = StoredValue(index, x)])

(* combine_transforms: translations, rotations and shears are added,       *)
(* scales are multiplied, then update_transform                            *)
combine_transforms(e, list) ==
    update_transform([e EXCEPT !.transformations_list =
        [i \in 1..15 |->
            IF i - 1 <= 2 \/ i - 1 >= 6
            THEN e.transformations_list[i] + list[i]
            ELSE FMul(e.transformations_list[i], list[i])]])

(* the matrices set_transform is called with: a translation, and a scaling *)
(* by 0 along x, which is singular                                         *)
TransformInputs == {translation(One, 0, 0), scaling(0, One, One)}

(* the lists combine_transforms is called with: those of a group scaled by *)
(* 2 and of a group translated by 1                                        *)
CombineInputs ==
    {[DefaultList EXCEPT ![4] = 2 * One], [DefaultList EXCEPT ![1] = One]}

InRange(list) ==
    \A i \in 1..15 : Abs(list[i]) <= MaxValue * One

varsNotTransform ==
    <<world, varsRender, varsRay, varsShade, tree, grpPc, grpXs, grpRes,
      tupPc, tupIn, tupOut, varsApp>>

InitTransform ==
    /\ ent = NewEntity
    /\ entPc = "ok"
    /\ entOp = <<"new">>
    /\ world = new_default
    /\ RenderIdle /\ RayIdle /\ ShadeIdle /\ GroupIdle /\ TupleIdle
    /\ AppIdle

(* Object::translate_x .. shear_zy / Group::translate_x .. shear_zy *)
Setter ==
    /\ entPc = "ok"
    /\ \E index \in Slots : \E x \in SetterValues :
          /\ ent' = set_transformation_list(ent, index, x)
          /\ entOp' = <<"setter", index, x>>
    /\ entPc' = IF Inverted(ent') THEN "ok" ELSE "panic"
    /\ UNCHANGED varsNotTransform

(* Object::set_transform / Group::set_transform *)
SetTransform ==
    /\ entPc = "ok"
    /\ \E m \in TransformInputs :
          /\ ent' = set_transform(ent, m)
          /\ entOp' = <<"set_transform", m>>
    /\ entPc' = IF Inverted(ent') THEN "ok" ELSE "panic"
    /\ UNCHANGED varsNotTransform

(* combine_transforms *)
CombineTransforms ==
    /\ entPc = "ok"
    /\ \E list \in CombineInputs :
          /\ ent' = combine_transforms(ent, list)
          /\ InRange(ent'.transformations_list)
          /\ entOp' = <<"combine_transforms", list>>
    /\ entPc' = IF Inverted(ent') THEN "ok" ELSE "panic"
    /\ UNCHANGED varsNotTransform

NextTransform ==
    \/ Setter
    \/ SetTransform
    \/ CombineTransforms

SpecTransform == InitTransform /\ [][NextTransform]_vars

(* C11: giving an Object or Group a transform that is not invertible,      *)
(* through set_transform or through the component setters, does not abort. *)
Cex_C11 == entPc # "panic"

(***************************************************************************)
(* Tuples (matrices/tuples.rs) and rays (rays.rs).  A Tuple is a record    *)
(* [x, y, z, v]; v = 1 is a point and v = 0 a vector.  An operation that   *)
(* panics yields Panic; a number is the record [f |-> number].             *)
(***************************************************************************)
MaxCoord == 1

Panic == [panic |-> TRUE]

Float(f) == [f |-> f]

point(x, y, z) == [x |-> x, y |-> y, z |-> z, v |-> 1]

vector(x, y, z) == [x |-> x, y |-> y, z |-> z, v |-> 0]

tupleUnchecked(x, y, z, v) == [x |-> x, y |-> y, z |-> z, v |-> v]

tuple(x, y, z, v) ==
    IF v = 1 THEN point(x, y, z)
    ELSE IF v = 0 THEN vector(x, y, z)
    ELSE Panic

is_vector(tup) == tup.v = 0

(* f64 division: 0/0 is NaN and a/0 is infinite *)
RECURSIVE Frac(_, _, _)
Frac(r, b, n) ==
    IF n = 0 THEN 0
    ELSE ((r * 10) \div b) * <<1, 10, 100, 1000, 10000>>[n]
           + Frac((r * 10) % b, b, n - 1)

FDiv(a, b) ==
    IF b = 0
    THEN IF a = 0 THEN "NaN" ELSE IF a > 0 THEN "inf" ELSE "-inf"
    ELSE LET q == (Abs(a) \div Abs(b)) * One + Frac(Abs(a) % Abs(b), Abs(b), 5)
         IN IF (a < 0) = (b < 0) THEN q ELSE -q

(* f64::sqrt, rounded down to the step *)
RECURSIVE SqrtIn(_, _, _)
SqrtIn(s, lo, hi) ==
    IF hi - lo <= 1 THEN lo
    ELSE LET mid == (lo + hi) \div 2
         IN IF FMul(mid, mid) <= s THEN SqrtIn(s, mid, hi) ELSE SqrtIn(s, lo, mid)

Sqrt(s) == SqrtIn(s, 0, (MaxCoord + 2) * One)

magnitude(tup) ==
    IF is_vector(tup)
    THEN Float(Sqrt(FMul(tup.x, tup.x) + FMul(tup.y, tup.y) + FMul(tup.z, tup.z)
                      + tup.v * tup.v * One))
    ELSE Panic

normalize(tup) ==
    IF is_vector(tup)
    THEN LET mag == magnitude(tup).f
         IN vector(FDiv(tup.x, mag), FDiv(tup.y, mag), FDiv(tup.z, mag))
    ELSE Panic

xprod(tup, other) ==
    IF is_vector(tup) /\ is_vector(other)
    THEN vector(FMul(tup.y, other.z) - FMul(tup.z, other.y),
                FMul(tup.z, other.x) - FMul(tup.x, other.z),
                FMul(tup.x, other.y) - FMul(tup.y, other.x))
    ELSE Panic

add(tup, other) ==
    tuple(tup.x + other.x, tup.y + other.y, tup.z + other.z, tup.v + other.v)

sub(tup, other) ==
    tuple(tup.x - other.x, tup.y - other.y, tup.z - other.z, tup.v - other.v)

neg(tup) ==
    IF is_vector(tup) THEN tuple(-tup.x, -tup.y, -tup.z, -tup.v) ELSE Panic

mul(tup, scale) ==
    IF is_vector(tup)
    THEN vector(FMul(tup.x, scale), FMul(tup.y, scale), FMul(tup.z, scale))
    ELSE Panic

dot(tup, other) ==
    IF is_vector(tup) /\ is_vector(other)
    THEN Float(FMul(tup.x, other.x) + FMul(tup.y, other.y) + FMul(tup.z, other.z))
    ELSE Panic

div(tup, scale) ==
    IF is_vector(tup)
    THEN vector(FDiv(tup.x, scale), FDiv(tup.y, scale), FDiv(tup.z, scale))
    ELSE Panic

(* impl Mul<Tuple> for Matrix4 *)
MulTupleEntry(m, tup, i) ==
    FMul(m[i][1], tup.x) + FMul(m[i][2], tup.y) + FMul(m[i][3], tup.z)
      + FMul(m[i][4], tup.v * One)

MulTuple(m, tup) ==
    IF is_vector(tup)
    THEN vector(MulTupleEntry(m, tup, 1), MulTupleEntry(m, tup, 2), MulTupleEntry(m, tup, 3))
    ELSE point(MulTupleEntry(m, tup, 1), MulTupleEntry(m, tup, 2), MulTupleEntry(m, tup, 3))

(* Ray::new *)
RayUnchecked(origin, direction) == [origin |-> origin, direction |-> direction]

Ray_new(origin, direction) ==
    IF origin.v # 1 THEN Panic
    ELSE IF direction.v # 0 THEN Panic
    ELSE [origin |-> origin, direction |-> direction]

(* Ray::transform *)
Ray_transform(ray, matrix) ==
    Ray_new(MulTuple(matrix, ray.origin), MulTuple(matrix, ray.direction))

Coords == {k * One : k \in -MaxCoord..MaxCoord}

Tuples ==
    {tuple(x, y, 0, v) : x \in Coords, y \in {0, One}, v \in {0, 1}}

Scales == {0, One \div 2, 2 * One}

RayMatrices == {translation(One, 0, 0), scaling(0, One, One), rotation_z(1)}

TupleInRange(tup) ==
    /\ Abs(tup.x) <= (MaxCoord + 1) * One
    /\ Abs(tup.y) <= (MaxCoord + 1) * One
    /\ Abs(tup.z) <= (MaxCoord + 1) * One

varsNotTuple ==
    <<world, varsRender, varsRay, varsShade, ent, entPc, entOp, tree, grpPc, grpXs, grpRes,
      varsApp>>

(* tupIn: the two operands and the scalar; tupPc: the operation applied;  *)
(* tupOut: what it returned.                                                *)
InitTuple ==
    /\ tupIn \in Tuples \X Tuples \X Scales
    /\ tupPc = "ready"
    /\ tupOut = <<>>
    /\ world = new_default
    /\ RenderIdle
    /\ RayIdle
    /\ ShadeIdle
    /\ AppIdle
    /\ TransformIdle
    /\ GroupIdle

Returned(value) == IF value = Panic THEN <<"panic">> ELSE <<"value", value>>

Apply(op, value) ==
    /\ tupPc = "ready"
    /\ tupPc' = op
    /\ tupOut' = Returned(value)
    /\ UNCHANGED tupIn
    /\ UNCHANGED varsNotTuple

Add == Apply("add", add(tupIn[1], tupIn[2]))

Sub == Apply("sub", sub(tupIn[1], tupIn[2]))

Neg == Apply("neg", neg(tupIn[1]))

MulScalar == Apply("mul", mul(tupIn[1], tupIn[3]))

DivScalar == Apply("div", div(tupIn[1], tupIn[3]))

Dot == Apply("dot", dot(tupIn[1], tupIn[2]))

Xprod == Apply("xprod", xprod(tupIn[1], tupIn[2]))

Magnitude == Apply("magnitude", magnitude(tupIn[1]))

Normalize == Apply("normalize", normalize(tupIn[1]))

RayNew == Apply("Ray::new", Ray_new(tupIn[1], tupIn[2]))

RayTransform ==
    /\ tupPc \in {"Ray::new", "Ray::transform"}
    /\ tupOut[1] = "value"
    /\ \E matrix \in RayMatrices :
          LET ray == Ray_transform(tupOut[2], matrix)
          IN /\ ray # Panic => TupleInRange(ray.origin) /\ TupleInRange(ray.direction)
             /\ tupOut' = Returned(ray)
    /\ tupPc' = "Ray::transform"
    /\ UNCHANGED tupIn
    /\ UNCHANGED varsNotTuple

NextTuple ==
    \/ Add
    \/ Sub
    \/ Neg
    \/ MulScalar
    \/ DivScalar
    \/ Dot
    \/ Xprod
    \/ Magnitude
    \/ Normalize
    \/ RayNew
    \/ RayTransform

SpecTuple == InitTuple /\ [][NextTuple]_vars

(***************************************************************************)
(* Groups (shapes/groups.rs, shapes/objectholders.rs).  tree is the heap   *)
(* of ObjectHolder values: tree[n].group lists the children of n, which    *)
(* the Vec of a Group holds by value, and a node that is no one's child is *)
(* a value the caller owns.                                                *)
(***************************************************************************)
MaxNodes == 3

Nodes == 1..MaxNodes

Children(t, n) == {t[n].group[i] : i \in DOMAIN t[n].group}

RECURSIVE Below(_, _, _)
Below(t, n, depth) ==
    IF depth = 0 THEN {}
    ELSE Children(t, n)
           \cup UNION {Below(t, c, depth - 1) : c \in Children(t, n) \cap DOMAIN t}

(* the values stored, at any depth, inside the value n *)
Descendants(t, n) == Below(t, n, MaxNodes)

Owned(t) == {n \in DOMAIN t : \A p \in DOMAIN t : n \notin Children(t, p)}

Fresh(t) == CHOOSE n \in Nodes \ DOMAIN t : \A other \in Nodes \ DOMAIN t : n <= other

Drop(t, gone) == [n \in DOMAIN t \ gone |-> t[n]]

(* the values a caller can pass by value while it holds &mut target: those *)
(* it owns other than the one target lives in                              *)
Nameable(t, target) == DOMAIN t

Movable(t, target) ==
    {n \in Owned(t) : n # target /\ target \notin Descendants(t, n)}

(* spheres::new() / Group::new_empty() followed by component setters *)
scale_y(e, y) == set_transformation_list(e, 4, y)

ObjectPlacements ==
    {NewEntity,
     set_transformation_list(NewEntity, 0, 5 * One),
     scale_y(NewEntity, One \div 2000)}

GroupPlacements ==
    {NewEntity,
     set_transformation_list(scale_y(set_transformation_list(NewEntity, 3, 2 * One), 2 * One), 5, 2 * One),
     scale_y(NewEntity, One \div 100)}

from_object(object) == [kind |-> "Object", group |-> <<>>, ent |-> object]

from_group(group) == [kind |-> "Group", group |-> <<>>, ent |-> group]

is_group(holder) == holder.kind = "Group"

(* Group::add_element / add_object / add_group: self.group.push(element) *)
add_element(t, target, element) ==
    [t EXCEPT ![target].group = Append(@, element)]

(* ObjectHolder::add_object_holder / add_object / add_group: a leaf        *)
(* returns Err and the element, passed by value, is dropped                *)
add_object_holder(t, target, element) ==
    IF is_group(t[target])
    THEN add_element(t, target, element)
    ELSE Drop(t, {element} \cup Descendants(t, element))

AddResult(t, target) == IF is_group(t[target]) THEN "Ok" ELSE "Err"

(* Vec::remove: panics when index is out of bounds *)
RemoveAt(seq, index) ==
    [i \in 1..(Len(seq) - 1) |-> IF i < index + 1 THEN seq[i] ELSE seq[i + 1]]

remove_from_group(t, target, index) ==
    IF is_group(t[target]) /\ index < Len(t[target].group)
    THEN LET gone == t[target].group[index + 1]
         IN Drop([t EXCEPT ![target].group = RemoveAt(@, index)],
                 {gone} \cup Descendants(t, gone))
    ELSE t

RemoveResult(t, target, index) ==
    IF ~is_group(t[target]) THEN "Err"
    ELSE IF index < Len(t[target].group) THEN "Ok" ELSE "panic"

(* Clone: a copy of the value n, at fresh places *)
Rank(x, set) == Cardinality({y \in set : y < x})

CloneOf(t, n) ==
    LET copied == {n} \cup Descendants(t, n)
        free == Nodes \ DOMAIN t
        place(x) == CHOOSE f \in free : Rank(f, free) = Rank(x, copied)
    IN [k \in DOMAIN t \cup {place(x) : x \in copied} |->
          IF k \in DOMAIN t THEN t[k]
          ELSE LET from == CHOOSE x \in copied : place(x) = k
               IN [t[from] EXCEPT !.group = [i \in DOMAIN t[from].group |-> place(t[from].group[i])]]]

(* Matrix4 * Tuple for the inverse of a matrix made of a translation and a *)
(* scaling, the only components the placements above set                   *)
MulInverseTuple(inverse, tup) ==
    LET m == inverse[2]
        x == FDiv(tup.x - m[1][4] * tup.v, m[1][1])
        y == FDiv(tup.y - m[2][4] * tup.v, m[2][2])
        z == FDiv(tup.z - m[3][4] * tup.v, m[3][3])
    IN IF is_vector(tup) THEN vector(x, y, z) ELSE point(x, y, z)

Ray_transform_inverse(ray, inverse) ==
    Ray_new(MulInverseTuple(inverse, ray.origin), MulInverseTuple(inverse, ray.direction))

Intersection_new(t_value, object, child) ==
    [t_value |-> t_value, object |-> object, child |-> child]

(* spheres::intersect *)
spheres_intersect(sphere, child, ray) ==
    LET vec_from_sphere_to_ray == sub(ray.origin, point(0, 0, 0))
        a == dot(ray.direction, ray.direction).f
        b == 2 * dot(ray.direction, vec_from_sphere_to_ray).f
        c == dot(vec_from_sphere_to_ray, vec_from_sphere_to_ray).f - One
        discriminant == FMul(b, b) - 4 * FMul(a, c)
        t1 == FDiv(-b - Sqrt(discriminant), 2 * a)
        t2 == FDiv(-b + Sqrt(discriminant), 2 * a)
    IN IF discriminant < 0 THEN <<>>
       ELSE IF t1 < t2
            THEN <<Intersection_new(t1, sphere, child), Intersection_new(t2, sphere, child)>>
            ELSE <<Intersection_new(t2, sphere, child), Intersection_new(t1, sphere, child)>>

(* Object::intersect *)
Object_intersect(object, child, ray) ==
    spheres_intersect(object, child, Ray_transform_inverse(ray, object.inverse_transform))

(* [panic, xs]: the Vec a call returns, or the panic of an invert() inside  *)
(* combine_transforms; Both is two of them one after the other             *)
Both(first, second) ==
    CHOOSE both \in {[panic |-> a.panic \/ b.panic, xs |-> a.xs \o b.xs] :
                        a \in {first}, b \in {second}} : TRUE

(* new_obj.combine_transforms(self.transformations_list) and the push *)
CombinedHit(i, list) ==
    CHOOSE one \in {[panic |-> ~Inverted(new_obj),
                     xs |-> <<Intersection_new(i.t_value, new_obj, i.child)>>] :
                       new_obj \in {combine_transforms(i.object, list)}} : TRUE

RECURSIVE CombinedHits(_, _, _)
CombinedHits(xs, list, j) ==
    IF j > Len(xs) THEN [panic |-> FALSE, xs |-> <<>>]
    ELSE Both(CombinedHit(xs[j], list), CombinedHits(xs, list, j + 1))

(* ObjectHolder::intersect, Group::intersect and Group::local_intersect *)
RECURSIVE Holder_intersect(_, _, _)
RECURSIVE local_intersect(_, _, _, _)
local_intersect(t, n, ray, k) ==
    IF k > Len(t[n].group) THEN [panic |-> FALSE, xs |-> <<>>]
    ELSE CHOOSE vec \in
           {Both(IF found.panic THEN found
                 ELSE CombinedHits(found.xs, t[n].ent.transformations_list, 1),
                 local_intersect(t, n, ray, k + 1)) :
              found \in {Holder_intersect(t, t[n].group[k], ray)}} : TRUE

Holder_intersect(t, n, ray) ==
    IF ~is_group(t[n])
    THEN [panic |-> FALSE, xs |-> Object_intersect(t[n].ent, n, ray)]
    ELSE CHOOSE returned \in
           {[panic |-> vec.panic, xs |-> SortByT(vec.xs)] :
              vec \in {local_intersect(t, n, local_ray, 1) :
                 local_ray \in {Ray_transform_inverse(ray, t[n].ent.inverse_transform)}}} : TRUE

Parent(t, n) == CHOOSE p \in DOMAIN t : n \in Children(t, p)

(* the product of the transforms from the group intersected down to n *)
RECURSIVE WorldTransform(_, _, _)
WorldTransform(t, root, n) ==
    IF n = root THEN t[n].ent.transform
    ELSE MatMul(WorldTransform(t, root, Parent(t, n)), t[n].ent.transform)

Rays ==
    {Ray_new(point(0, 0, -5 * One), vector(0, 0, One)),
     Ray_new(point(10 * One, 0, -10 * One), vector(0, 0, One))}

Indexes == 0..1

varsNotGroup ==
    <<world, varsRender, varsRay, varsShade, ent, entPc, entOp, tupPc, tupIn, tupOut,
      varsApp>>

(* grpPc: the last call and its arguments; grpRes: the Result it returned, *)
(* "none" when it returns no Result, or "panic"; grpXs: the Vec returned   *)
(* by intersect.                                                           *)
InitGroup ==
    /\ tree = <<>>
    /\ grpPc = <<"main">>
    /\ grpXs = <<>>
    /\ grpRes = "none"
    /\ world = new_default
    /\ RenderIdle
    /\ RayIdle
    /\ ShadeIdle
    /\ AppIdle
    /\ TransformIdle
    /\ TupleIdle

NewObject ==
    /\ grpRes # "panic"
    /\ DOMAIN tree # Nodes
    /\ \E object \in ObjectPlacements :
          /\ tree' = [n \in DOMAIN tree \cup {Fresh(tree)} |->
                        IF n \in DOMAIN tree THEN tree[n] ELSE from_object(object)]
          /\ grpPc' = <<"from_object", Fresh(tree)>>
    /\ grpRes' = "none"
    /\ grpXs' = <<>>
    /\ UNCHANGED varsNotGroup

NewGroup ==
    /\ grpRes # "panic"
    /\ DOMAIN tree # Nodes
    /\ \E group \in GroupPlacements :
          /\ tree' = [n \in DOMAIN tree \cup {Fresh(tree)} |->
                        IF n \in DOMAIN tree THEN tree[n] ELSE from_group(group)]
          /\ grpPc' = <<"from_group", Fresh(tree)>>
    /\ grpRes' = "none"
    /\ grpXs' = <<>>
    /\ UNCHANGED varsNotGroup

Clone ==
    /\ grpRes # "panic"
    /\ \E n \in DOMAIN tree :
          /\ Cardinality({n} \cup Descendants(tree, n)) <= Cardinality(Nodes \ DOMAIN tree)
          /\ tree' = CloneOf(tree, n)
          /\ grpPc' = <<"clone", n>>
    /\ grpRes' = "none"
    /\ grpXs' = <<>>
    /\ UNCHANGED varsNotGroup

AddCall(name, kinds) ==
    /\ grpRes # "panic"
    /\ \E target \in DOMAIN tree :
          \E element \in Movable(tree, target) :
             /\ tree[element].kind \in kinds
             /\ tree' = add_object_holder(tree, target, element)
             /\ grpPc' = <<name, target, element>>
             /\ grpRes' = AddResult(tree, target)
    /\ grpXs' = <<>>
    /\ UNCHANGED varsNotGroup

AddObject == AddCall("add_object", {"Object"})

AddGroup == AddCall("add_group", {"Group"})

AddObjectHolder == AddCall("add_object_holder", {"Object", "Group"})

RemoveFromGroup ==
    /\ grpRes # "panic"
    /\ \E target \in DOMAIN tree :
          \E index \in Indexes :
             /\ tree' = remove_from_group(tree, target, index)
             /\ grpPc' = <<"remove_from_group", target, index>>
             /\ grpRes' = RemoveResult(tree, target, index)
    /\ grpXs' = <<>>
    /\ UNCHANGED varsNotGroup

Intersect ==
    /\ grpRes # "panic"
    /\ \E root \in Owned(tree) :
          \E ray \in Rays :
             \E found \in {Holder_intersect(tree, root, ray)} :
                /\ grpXs' = IF found.panic THEN <<>> ELSE found.xs
                /\ grpRes' = IF found.panic THEN "panic" ELSE "none"
                /\ grpPc' = <<"intersect", root, ray>>
    /\ UNCHANGED tree
    /\ UNCHANGED varsNotGroup

NextGroup ==
    \/ NewObject
    \/ NewGroup
    \/ Clone
    \/ AddObject
    \/ AddGroup
    \/ AddObjectHolder
    \/ RemoveFromGroup
    \/ Intersect

SpecGroup == InitGroup /\ [][NextGroup]_vars

(* C12: add and subtract give the sum, respectively the difference, of the *)
(* operand tags and abort when that is neither 0 nor 1; negation, scalar   *)
(* multiply and divide, magnitude and normalize abort exactly when the     *)
(* operand is a point, dot and cross product exactly when either operand   *)
(* is one, and whatever tuple they return is a vector.                     *)
Thm_C12 ==
    LET a == tupIn[1]
        b == tupIn[2]
    IN /\ tupPc = "add" =>
             IF a.v + b.v \in {0, 1}
             THEN tupOut[1] = "value" /\ tupOut[2].v = a.v + b.v
             ELSE tupOut[1] = "panic"
       /\ tupPc = "sub" =>
             IF a.v - b.v \in {0, 1}
             THEN tupOut[1] = "value" /\ tupOut[2].v = a.v - b.v
             ELSE tupOut[1] = "panic"
       /\ tupPc \in {"neg", "mul", "div", "magnitude", "normalize"} =>
             (tupOut[1] = "panic" <=> a.v = 1)
       /\ tupPc \in {"dot", "xprod"} =>
             (tupOut[1] = "panic" <=> (a.v = 1 \/ b.v = 1))
       /\ tupPc \in {"neg", "mul", "div", "normalize", "xprod"} /\ tupOut[1] = "value" =>
             tupOut[2].v = 0

Wit_C12 ==
    /\ tupPc = "add"
    /\ tupIn[1].v = 1
    /\ tupIn[2].v = 1
    /\ tupOut[1] = "panic"

(* C13: a Ray that exists has a point as origin and a vector as direction: *)
(* Ray::new aborts exactly when the origin is not a point or the direction *)
(* is not a vector, and Ray::transform never aborts and keeps both tags.   *)
Thm_C13 ==
    /\ tupPc \in {"Ray::new", "Ray::transform"} /\ tupOut[1] = "value" =>
          tupOut[2].origin.v = 1 /\ tupOut[2].direction.v = 0
    /\ tupPc = "Ray::new" =>
          (tupOut[1] = "panic" <=> (tupIn[1].v # 1 \/ tupIn[2].v # 0))
    /\ tupPc = "Ray::transform" => tupOut[1] = "value"

Wit_C13 ==
    /\ tupPc = "Ray::transform"
    /\ tupOut[1] = "value"
    /\ tupOut[2].origin # tupIn[1]
    /\ tupOut[2].direction # tupIn[2]

(* C14: every hit returned by Group::intersect carries an object whose     *)
(* transform is the child's world transform, the group's transform         *)
(* composed with the child's.                                               *)
Cex_C14 ==
    grpPc[1] = "intersect" /\ is_group(tree[grpPc[2]]) =>
       \A j \in DOMAIN grpXs :
          grpXs[j].object.transform = WorldTransform(tree, grpPc[2], grpXs[j].child)

(* C15: Group::intersect returns; for a group without children it returns  *)
(* the empty list and otherwise one hit for every intersection of every    *)
(* child with the ray taken into group space, with that intersection's t,  *)
(* in non-decreasing order of t.                                           *)
ChildHits(t, n, ray) ==
    CHOOSE hits \in
       {[k \in DOMAIN t[n].group |-> Holder_intersect(t, t[n].group[k], local_ray).xs] :
          local_ray \in {Ray_transform_inverse(ray, t[n].ent.inverse_transform)}} : TRUE

HitsPerChild ==
    \A expected \in {ChildHits(tree, grpPc[2], grpPc[3])} :
       /\ \A k \in DOMAIN expected :
             \A tv \in {expected[k][j].t_value : j \in DOMAIN expected[k]} :
                \A c \in {expected[k][j].child : j \in DOMAIN expected[k]} :
                   Cardinality({j \in DOMAIN grpXs :
                                  grpXs[j].child = c /\ grpXs[j].t_value = tv})
                     = Cardinality({j \in DOMAIN expected[k] :
                                      expected[k][j].child = c /\ expected[k][j].t_value = tv})
       /\ \A j \in DOMAIN grpXs :
             \E k \in DOMAIN expected : \E i \in DOMAIN expected[k] :
                grpXs[j].child = expected[k][i].child
                  /\ grpXs[j].t_value = expected[k][i].t_value
       /\ \A j \in 1..(Len(grpXs) - 1) : grpXs[j].t_value <= grpXs[j + 1].t_value

Cex_C15 ==
    grpPc[1] = "intersect" /\ is_group(tree[grpPc[2]]) =>
       /\ grpRes # "panic"
       /\ tree[grpPc[2]].group = <<>> => grpXs = <<>>
       /\ HitsPerChild

(* C16: after every transform mutation (a component setter,                *)
(* combine_transforms or set_transform) the stored transform is            *)
(* translation * scaling * rotation_x * rotation_y * rotation_z * shearing *)
(* of the stored 15 components (stated for mutations that return).        *)
Cex_C16 ==
    entPc = "ok" => ent.transform = ComposedTransform(ent.transformations_list)

(* Object::get_translate_x .. get_shear_zy *)
get_transformation_list(e, index) == e.transformations_list[index + 1]

(* C17: a component setter stores its argument (EPSILON for scale_*(0)) in *)
(* exactly one slot of the 15-component list and leaves the other 14       *)
(* unchanged; the matching getter then returns it, and calling the setter  *)
(* again with the same value changes nothing.                              *)
SetterStores ==
    entOp'[1] = "setter" =>
       LET index == entOp'[2]
           x == entOp'[3]
           stored == IF index \in {3, 4, 5} /\ x = 0 THEN EPSILON ELSE x
       IN /\ ent'.transformations_list =
                [ent.transformations_list EXCEPT ![index + 1] = stored]
          /\ get_transformation_list(ent', index) = stored
          /\ set_transformation_list(ent', index, x) = ent'

TreeShaped ==
    /\ \A n \in DOMAIN tree : Children(tree, n) \subseteq DOMAIN tree
    /\ \A n \in DOMAIN tree : n \notin Descendants(tree, n)
    /\ \A n \in DOMAIN tree :
          Cardinality({<<p, i>> \in (DOMAIN tree) \X Nodes :
                         i \in DOMAIN tree[p].group /\ tree[p].group[i] = n}) <= 1
    /\ \A n \in DOMAIN tree : ~is_group(tree[n]) => tree[n].group = <<>>

AddOnLeafRefused ==
    grpPc'[1] \in {"add_object", "add_group", "add_object_holder"}
      /\ ~is_group(tree[grpPc'[2]]) =>
         /\ grpRes' = "Err"
         /\ grpPc'[2] \in DOMAIN tree'
         /\ tree'[grpPc'[2]] = tree[grpPc'[2]]

ReflectedAsClaimed ==
    shadePc = "running" =>
       \A k \in DOMAIN stack :
          LET f == stack[k]
          IN /\ f.pc = "reflected_wait" =>
                   /\ f.remaining >= 1
                   /\ f.comps[1].object.reflective # 0
                   /\ k < Len(stack)
                   /\ stack[k + 1].ray = ReflectedRay
                   /\ stack[k + 1].remaining = f.remaining - 1
             /\ f.pc \in {"refracted_color", "refracted_wait", "return"} /\ f.comps # <<>> =>
                   IF f.remaining < 1 \/ f.comps[1].object.reflective = 0
                   THEN f.reflections[1] = "black"
                   ELSE /\ f.reflections[1] = "times"
                        /\ f.reflections[3] = f.comps[1].object.reflective

ReflectionReturned ==
    shadePc = "running" /\ Len(stack) > 1 /\ Len(stack') = Len(stack) - 1
      /\ stack[Len(stack) - 1].pc = "reflected_wait" =>
         stack'[Len(stack')].reflections =
            <<"times", ColorOf(Top), stack[Len(stack) - 1].comps[1].object.reflective>>

Thm_C19 == []ReflectedAsClaimed /\ [][ReflectionReturned]_vars

Wit_C19 ==
    /\ shadePc = "running"
    /\ Len(stack) = 1
    /\ Top.pc = "refracted_color"
    /\ Top.remaining >= 1
    /\ Top.reflections[1] = "times"
    /\ Top.reflections[2][1] = "shade_hit"
    /\ Top.reflections[3] = Mirror.reflective

(* C20: refracted_color returns black when the hit object's transparency   *)
(* is 0, when remaining is 0, or when sin2_t > 1; otherwise it calls       *)
(* color_at with the refracted ray from under_point and remaining - 1 and  *)
(* returns that color times transparency.                                  *)
RefractedAsClaimed ==
    shadePc = "running" =>
       \A k \in DOMAIN stack :
          LET f == stack[k]
          IN /\ f.pc = "refracted_wait" =>
                   /\ f.remaining # 0
                   /\ f.comps[1].object.transparency # 0
                   /\ f.sin2_t = <<FALSE>>
                   /\ k < Len(stack)
                   /\ stack[k + 1].ray = RefractedRay
                   /\ stack[k + 1].remaining = f.remaining - 1
             /\ f.pc = "return" /\ f.comps # <<>> =>
                   IF \/ f.comps[1].object.transparency = 0
                      \/ f.remaining = 0
                      \/ f.sin2_t = <<TRUE>>
                   THEN f.refractions[1] = "black"
                   ELSE /\ f.refractions[1] = "times"
                        /\ f.refractions[3] = f.comps[1].object.transparency

RefractionReturned ==
    shadePc = "running" /\ Len(stack) > 1 /\ Len(stack') = Len(stack) - 1
      /\ stack[Len(stack) - 1].pc = "refracted_wait" =>
         stack'[Len(stack')].refractions =
            <<"times", ColorOf(Top), stack[Len(stack) - 1].comps[1].object.transparency>>

Thm_C20 == []RefractedAsClaimed /\ [][RefractionReturned]_vars

Wit_C20 ==
    /\ shadePc = "running"
    /\ Len(stack) = 1
    /\ Top.pc = "return"
    /\ Top.comps # <<>>
    /\ Top.remaining >= 1
    /\ Top.refractions[1] = "times"
    /\ Top.refractions[2][1] = "shade_hit"
    /\ Top.refractions[3] = GlassSphere.transparency

(* C21: shade_hit multiplies the reflected color by the Schlick            *)
(* reflectance and the refracted color by 1 - reflectance exactly when the *)
(* hit object has reflective > 0 and transparency > 0; otherwise it adds   *)
(* the two colors as they are; the local color is never multiplied.        *)
Thm_C21 ==
    \A k \in DOMAIN stack :
       (stack[k].pc = "return" /\ stack[k].comps # <<>>) =>
          LET object == stack[k].comps[1].object
              sum == stack[k].sum
              both == object.reflective > 0 /\ object.transparency > 0
          IN /\ Len(sum) = 3
             /\ sum[1] = [color |-> <<"clr">>, times |-> <<>>]
             /\ sum[2].color = stack[k].reflections
             /\ sum[3].color = stack[k].refractions
             /\ both => /\ sum[2].times = <<"reflectance">>
                        /\ sum[3].times = <<"1.0 - reflectance">>
             /\ ~both => sum[2].times = <<>> /\ sum[3].times = <<>>

(* a glass sphere was shaded with both secondary colors computed, and a    *)
(* mirror behind it without weights                                        *)
Wit_C21 ==
    /\ Len(stack) = 1
    /\ Top.pc = "return"
    /\ Top.comps # <<>>
    /\ Top.comps[1].object = GlassSphere
    /\ Top.sum[2].times = <<"reflectance">>
    /\ Top.reflections # <<"black">>
    /\ Top.refractions # <<"black">>
    /\ Top.refractions[2] = <<"shade_hit", Mirror>>

(* C22: the cached inverse_transform is the inverse of the current         *)
(* transform and the cached inverse_transform_transposed its transpose,    *)
(* for every Object and Group of the tree, and intersect uses cached       *)
(* values only: the inverse an intersection's object carries is the one    *)
(* cached in the child it was found on, not one computed during intersect. *)
Cex_C22 ==
    /\ \A n \in DOMAIN tree :
          /\ tree[n].ent.inverse_transform = <<"invert", tree[n].ent.transform>>
          /\ tree[n].ent.inverse_transform_transposed
                = <<"transpose", tree[n].ent.inverse_transform>>
    /\ (grpPc[1] = "intersect" /\ grpRes # "panic") =>
          \A j \in DOMAIN grpXs :
             /\ grpXs[j].object.inverse_transform
                   = tree[grpXs[j].child].ent.inverse_transform
             /\ grpXs[j].object.inverse_transform_transposed
                   = tree[grpXs[j].child].ent.inverse_transform_transposed

(***************************************************************************)
(* Cylinders and cones (shapes/cylinders.rs, shapes/cones.rs).  A shape is *)
(* [shape, min, max, closed]; the ray is the local ray Object::intersect   *)
(* passes.  `surface` of an intersection records which push made it.       *)
(***************************************************************************)
(* ApproxEq::approx_eq of f64 *)
approx_eq(a, b) == Abs(a - b) < EPSILON

(* f64::sqrt of the discriminants met here, rounded down to the step *)
SqrtDisc(s) == SqrtIn(s, 0, 20 * One)

Intersection_on(t_value, object, surface) ==
    [t_value |-> t_value, object |-> object, surface |-> surface]

(* ray.get_origin().y + (t * ray.get_direction().y) *)
HeightAt(ray, t) == ray.origin.y + FMul(t, ray.direction.y)

(* x.powi(2) + z.powi(2) of the point of the ray at t *)
AxisDistanceSq(ray, t) ==
    LET x == ray.origin.x + FMul(t, ray.direction.x)
        z == ray.origin.z + FMul(t, ray.direction.z)
    IN FMul(x, x) + FMul(z, z)

(* cylinders::check_cap *)
cylinders_check_cap(ray, t) == AxisDistanceSq(ray, t) <= One

(* cones::check_cap *)
cones_check_cap(ray, t, y) == AxisDistanceSq(ray, t) <= Abs(y)

(* check_cap of the shape's module *)
check_cap(object, ray, t, y) ==
    IF object.shape = "Cylinder" THEN cylinders_check_cap(ray, t)
    ELSE cones_check_cap(ray, t, y)

(* cylinders::intersect_caps and cones::intersect_caps *)
intersect_caps(object, ray) ==
    IF ~object.closed \/ approx_eq(ray.direction.y, 0)
    THEN <<>>
    ELSE LET t1 == FDiv(object.min - ray.origin.y, ray.direction.y)
             t2 == FDiv(object.max - ray.origin.y, ray.direction.y)
         IN (IF check_cap(object, ray, t1, object.min)
             THEN <<Intersection_on(t1, object, "cap")>> ELSE <<>>)
            \o (IF check_cap(object, ray, t2, object.max)
                THEN <<Intersection_on(t2, object, "cap")>> ELSE <<>>)

(* if min < y && y < max { vec.push(Intersection::new(t, ..)) } *)
Truncated(object, ray, t) ==
    IF object.min < HeightAt(ray, t) /\ HeightAt(ray, t) < object.max
    THEN <<Intersection_on(t, object, "wall")>> ELSE <<>>

(* the two roots, swapped when t0 > t1, each kept when inside the bounds,  *)
(* then the caps                                                           *)
QuadraticHits(object, ray, a, b, c) ==
    LET disc == FMul(b, b) - FMul(4 * a, c)
        r0 == FDiv(-b - SqrtDisc(disc), 2 * a)
        r1 == FDiv(-b + SqrtDisc(disc), 2 * a)
        t0 == IF r0 > r1 THEN r1 ELSE r0
        t1 == IF r0 > r1 THEN r0 ELSE r1
    IN IF disc < 0 THEN <<>>
       ELSE Truncated(object, ray, t0) \o Truncated(object, ray, t1)
              \o intersect_caps(object, ray)

(* cylinders::intersect *)
cylinders_intersect(cylinder, ray) ==
    LET a == FMul(ray.direction.x, ray.direction.x)
               + FMul(ray.direction.z, ray.direction.z)
        b == FMul(2 * ray.origin.x, ray.direction.x)
               + FMul(2 * ray.origin.z, ray.direction.z)
        c == FMul(ray.origin.x, ray.origin.x) + FMul(ray.origin.z, ray.origin.z) - One
    IN IF a < EPSILON THEN intersect_caps(cylinder, ray)
       ELSE QuadraticHits(cylinder, ray, a, b, c)

(* cones::intersect *)
cones_intersect(cone, ray) ==
    LET a == FMul(ray.direction.x, ray.direction.x)
               - FMul(ray.direction.y, ray.direction.y)
               + FMul(ray.direction.z, ray.direction.z)
        b == FMul(2 * ray.origin.x, ray.direction.x)
               - FMul(2 * ray.origin.y, ray.direction.y)
               + FMul(2 * ray.origin.z, ray.direction.z)
        c == FMul(ray.origin.x, ray.origin.x)
               - FMul(ray.origin.y, ray.origin.y)
               + FMul(ray.origin.z, ray.origin.z)
    IN IF approx_eq(a, 0) /\ approx_eq(b, 0) THEN intersect_caps(cone, ray)
       ELSE IF approx_eq(a, 0)
       THEN <<Intersection_on(FDiv(-c, 2 * b), cone, "wall")>>
              \o intersect_caps(cone, ray)
       ELSE QuadraticHits(cone, ray, a, b, c)

(* the shapes of the repository's tests, open and closed *)
Shapes ==
    {[shape |-> "Cylinder", min |-> One, max |-> 2 * One, closed |-> closed] :
        closed \in BOOLEAN}
    \cup {[shape |-> "Cone", min |-> -(One \div 2), max |-> One \div 2,
           closed |-> closed] : closed \in BOOLEAN}

(* rays from beside, below, inside and above the shapes, along the axes    *)
(* and the diagonals; heights on both bounds of the cylinder are among     *)
(* the origins                                                             *)
ShapeRays ==
    {Ray_new(point(x, y, z), vector(dx, dy, dz)) :
        x \in {0, (6 * One) \div 10},
        y \in {-One, 0, One, (3 * One) \div 2, 2 * One, 3 * One},
        z \in {-5 * One, -2 * One, 0},
        dx \in {0, One}, dy \in {-One, 0, One}, dz \in {0, One}}
      \ {Ray_new(point(x, y, z), vector(0, 0, 0)) :
           x \in {0, (6 * One) \div 10},
           y \in {-One, 0, One, (3 * One) \div 2, 2 * One, 3 * One},
           z \in {-5 * One, -2 * One, 0}}

(* tupIn: the shape and the ray; tupPc: the function applied; tupOut: the  *)
(* Vec it returned                                                         *)
InitShape ==
    /\ tupIn \in Shapes \X ShapeRays
    /\ tupPc = "ready"
    /\ tupOut = <<>>
    /\ world = new_default
    /\ RenderIdle
    /\ RayIdle
    /\ ShadeIdle
    /\ AppIdle
    /\ TransformIdle
    /\ GroupIdle

CylindersIntersect ==
    /\ tupPc = "ready"
    /\ tupIn[1].shape = "Cylinder"
    /\ tupPc' = "cylinders::intersect"
    /\ tupOut' = cylinders_intersect(tupIn[1], tupIn[2])
    /\ UNCHANGED tupIn
    /\ UNCHANGED varsNotTuple

ConesIntersect ==
    /\ tupPc = "ready"
    /\ tupIn[1].shape = "Cone"
    /\ tupPc' = "cones::intersect"
    /\ tupOut' = cones_intersect(tupIn[1], tupIn[2])
    /\ UNCHANGED tupIn
    /\ UNCHANGED varsNotTuple

NextShape ==
    \/ CylindersIntersect
    \/ ConesIntersect

SpecShape == InitShape /\ [][NextShape]_vars

(* C23: every wall intersection cylinders::intersect or cones::intersect   *)
(* returns lies at a height y with min < y < max, in every branch, the     *)
(* cone's linear case (a approximately 0) included.                        *)
Cex_C23 ==
    tupPc \in {"cylinders::intersect", "cones::intersect"} =>
       \A j \in DOMAIN tupOut :
          tupOut[j].surface = "wall" =>
             /\ tupIn[1].min < HeightAt(tupIn[2], tupOut[j].t_value)
             /\ HeightAt(tupIn[2], tupOut[j].t_value) < tupIn[1].max

(* C24: a closed cylinder or cone returns the cap intersection at the      *)
(* plane y = min or y = max if and only if the ray is not parallel to the  *)
(* plane and the point's distance to the y axis is at most the radius at   *)
(* that height, 1 for a cylinder and |y| for a cone; an open one returns   *)
(* no cap intersection.                                                    *)
RadiusAt(object, y) == IF object.shape = "Cylinder" THEN One ELSE Abs(y)

CapExpected(object, ray, y) ==
    /\ object.closed
    /\ ray.direction.y # 0
    /\ AxisDistanceSq(ray, FDiv(y - ray.origin.y, ray.direction.y))
         <= FMul(RadiusAt(object, y), RadiusAt(object, y))

CapReturned(ray, y, xs) ==
    /\ ray.direction.y # 0
    /\ \E j \in DOMAIN xs :
          /\ xs[j].surface = "cap"
          /\ xs[j].t_value = FDiv(y - ray.origin.y, ray.direction.y)

Cex_C24 ==
    tupPc \in {"cylinders::intersect", "cones::intersect"} =>
       /\ \A y \in {tupIn[1].min, tupIn[1].max} :
             CapReturned(tupIn[2], y, tupOut) <=> CapExpected(tupIn[1], tupIn[2], y)
       /\ ~tupIn[1].closed => \A j \in DOMAIN tupOut : tupOut[j].surface # "cap"

(***************************************************************************)
(* Patterns (surfaces/patterns.rs) and Object::pattern_at_object.  Colors  *)
(* are names; a Pattern is [pattern_type, transform, inverse_transform,    *)
(* color1, color2].                                                        *)
(***************************************************************************)
(* Pattern::new *)
Pattern_new(pattern_type, color1, color2) ==
    [pattern_type |-> pattern_type, transform |-> identity,
     inverse_transform |-> <<"invert", identity>>,
     color1 |-> color1, color2 |-> color2]

solid == Pattern_new("Solid", "white", "black")

stripe(a, b) == Pattern_new("Stripe", a, b)

(* Pattern::set_transform, for an invertible matrix *)
Pattern_set_transform(pattern, transform) ==
    [pattern EXCEPT !.transform = transform,
                    !.inverse_transform = <<"invert", transform>>]

(* mutant of floor: the fraction is cut off toward 0 *)
trunc(f) == IF f < 0 THEN -((-f) \div One) * One ELSE (f \div One) * One

(* f64::floor: the largest whole number not above f *)
floor(f) == (f \div One) * One

(* `as isize` of a whole f64 inside the range of isize *)
AsIsize(f) == f \div One

(* % of isize: the remainder has the sign of the dividend *)
Rem(n, d) == IF n < 0 THEN -((-n) % d) ELSE n % d

(* patterns::stripe_at *)
stripe_at(a, b, pt) ==
    IF Rem(AsIsize(floor(pt.x)), 2) = 0 THEN a ELSE b

(* Pattern::pattern_at, for Stripe and Solid *)
pattern_at(pattern, pt) ==
    IF pattern.pattern_type = "Stripe"
    THEN stripe_at(pattern.color1, pattern.color2, pt)
    ELSE "black"

(* Object::pattern_at_object *)
pattern_at_object(object, pt) ==
    IF object.material.pattern.pattern_type = "Solid"
    THEN object.material.color
    ELSE LET local_point == MulInverseTuple(object.inverse_transform, pt)
             pattern_space_point ==
                 MulInverseTuple(object.material.pattern.inverse_transform, local_point)
         IN pattern_at(object.material.pattern, pattern_space_point)

(* the transforms of the pattern tests *)
PatternMatrices ==
    {identity, scaling(2 * One, 2 * One, 2 * One), translation(One \div 2, 0, 0)}

(* an Object with set_transform, set_color, set_pattern and                *)
(* set_pattern_transform applied                                           *)
PatternObjects ==
    {[material |-> [color |-> "red",
                    pattern |-> Pattern_set_transform(pattern, pm)],
      transform |-> set_transform(NewEntity, om).transform,
      inverse_transform |-> set_transform(NewEntity, om).inverse_transform] :
        pattern \in {solid, stripe("white", "black")},
        pm \in PatternMatrices, om \in PatternMatrices}

(* points on both sides of 0 and of the whole numbers, -1.1 among them *)
PatternPoints ==
    {point(x, y, z) :
        x \in {(k * One) \div 2 : k \in -5..5} \cup {-((11 * One) \div 10)},
        y \in {0, One}, z \in {0, One}}

(* tupIn: the object and the point; tupPc: the function applied; tupOut:   *)
(* the color it returned                                                   *)
InitPattern ==
    /\ tupIn \in PatternObjects \X PatternPoints
    /\ tupPc = "ready"
    /\ tupOut = <<>>
    /\ world = new_default
    /\ RenderIdle
    /\ RayIdle
    /\ ShadeIdle
    /\ AppIdle
    /\ TransformIdle
    /\ GroupIdle

(* object.get_pattern().pattern_at(point) *)
PatternAt ==
    /\ tupPc = "ready"
    /\ tupPc' = "pattern_at"
    /\ tupOut' = <<pattern_at(tupIn[1].material.pattern, tupIn[2])>>
    /\ UNCHANGED tupIn
    /\ UNCHANGED varsNotTuple

(* object.pattern_at_object(point) *)
PatternAtObject ==
    /\ tupPc = "ready"
    /\ tupPc' = "pattern_at_object"
    /\ tupOut' = <<pattern_at_object(tupIn[1], tupIn[2])>>
    /\ UNCHANGED tupIn
    /\ UNCHANGED varsNotTuple

NextPattern ==
    \/ PatternAt
    \/ PatternAtObject

SpecPattern == InitPattern /\ [][NextPattern]_vars

(* the stripe the claim describes: a where the largest whole number not    *)
(* above x is even, b where it is odd                                      *)
StripeOf(a, b, x) ==
    IF \E k \in -4..4 : 2 * k * One <= x /\ x < (2 * k + 1) * One THEN a ELSE b

(* the inverses of the matrices of PatternMatrices, written out *)
InverseOf(m) ==
    IF m = identity THEN identity
    ELSE IF m = scaling(2 * One, 2 * One, 2 * One)
    THEN scaling(One \div 2, One \div 2, One \div 2)
    ELSE translation(-(One \div 2), 0, 0)

(* C25: the stripe pattern returns a where floor(x) is even and b where it *)
(* is odd, for negative x too and whatever y and z are; pattern_at_object  *)
(* evaluates it at the point taken through the inverse of the object's     *)
(* transform and then the inverse of the pattern's, and returns the        *)
(* material's color for a Solid pattern.                                   *)
Thm_C25 ==
    LET object == tupIn[1]
        pattern == object.material.pattern
        pattern_space_point ==
            MulTuple(InverseOf(pattern.transform),
                     MulTuple(InverseOf(object.transform), tupIn[2]))
    IN /\ (tupPc = "pattern_at" /\ pattern.pattern_type = "Stripe") =>
             tupOut[1] = StripeOf(pattern.color1, pattern.color2, tupIn[2].x)
       /\ (tupPc = "pattern_at_object" /\ pattern.pattern_type = "Stripe") =>
             /\ MatMul(pattern.transform, InverseOf(pattern.transform)) = identity
             /\ MatMul(object.transform, InverseOf(object.transform)) = identity
             /\ tupOut[1] = StripeOf(pattern.color1, pattern.color2,
                                     pattern_space_point.x)
       /\ (tupPc = "pattern_at_object" /\ pattern.pattern_type = "Solid") =>
             tupOut[1] = object.material.color

(* an object scaled by 2 with its pattern moved by 0.5 gave a at           *)
(* x = -1.1, y = 1, where the pattern is met at x = -1.05                  *)
Wit_C25 ==
    /\ tupIn[2].x = -((11 * One) \div 10)
    /\ tupIn[1].material.pattern.pattern_type = "Stripe"
    /\ tupIn[1].transform = scaling(2 * One, 2 * One, 2 * One)
    /\ tupIn[1].material.pattern.transform = translation(One \div 2, 0, 0)
    /\ tupIn[2].y = One
    /\ tupPc = "pattern_at_object"
    /\ tupOut = <<"white">>

(***************************************************************************)
(* Camera (scenes/camera.rs): construction and the preview camera.  A view *)
(* transform is kept as the three components it is built from.             *)
(***************************************************************************)
PREVIEW_VSIZE == 400

(* view_transform(from, to, up) *)
view_transform(from, to, up) == <<"view_transform", from, to, up>>

(* field_of_view / 2.0).tan() for FRAC_PI_2 and FRAC_PI_3 *)
HalfView(field_of_view) ==
    IF field_of_view = "FRAC_PI_2" THEN One ELSE 57735

(* Camera::initialize *)
initialize(c) ==
    LET half_view == HalfView(c.field_of_view)
        aspect == FDiv(c.hsize * One, c.vsize * One)
        half_width == IF aspect >= One THEN half_view ELSE FMul(half_view, aspect)
        half_height == IF aspect >= One THEN FDiv(half_view, aspect) ELSE half_view
    IN [c EXCEPT !.half_width = half_width,
                 !.half_height = half_height,
                 !.pixel_size = FDiv(half_width * 2, c.hsize * One)]

(* Camera::set_transform *)
Camera_set_transform(c, transform) ==
    [c EXCEPT !.transform = transform,
              !.inverse_transform = <<"invert", transform>>]

(* Camera::update_transformations *)
update_transformations(c) ==
    Camera_set_transform(c, view_transform(c.transform_components[1],
                                           c.transform_components[2],
                                           c.transform_components[3]))

(* Camera::set_from *)
set_from(c, from) ==
    update_transformations([c EXCEPT !.transform_components[1] = from])

(* Camera::new *)
Camera_new(hsize, vsize, field_of_view) ==
    update_transformations(initialize(
        [hsize |-> hsize, vsize |-> vsize, field_of_view |-> field_of_view,
         transform |-> identity, inverse_transform |-> identity,
         transform_components |-> <<point(0, 0, 0), point(0, 0, -One), vector(0, One, 0)>>,
         pixel_size |-> 0, half_width |-> 0, half_height |-> 0]))

(* Camera::new_preview: ratio is hsize / vsize, hsize the whole part of    *)
(* 400.0 * ratio                                                           *)
new_preview(camera) ==
    LET ratio == FDiv(camera.hsize * One, camera.vsize * One)
    IN update_transformations(initialize(
          [hsize |-> FMul(PREVIEW_VSIZE * One, ratio) \div One,
           vsize |-> PREVIEW_VSIZE,
           field_of_view |-> camera.field_of_view,
           transform |-> camera.transform,
           inverse_transform |-> camera.inverse_transform,
           transform_components |-> camera.transform_components,
           pixel_size |-> 0, half_width |-> 0, half_height |-> 0]))

(* raster sizes below, at and above the 400 rows of the preview *)
RasterSizes == {100, 125, 200, 400, 800}

(* the cameras of the camera tests and of the editor: as constructed,      *)
(* moved with set_from, or given a view with set_transform                 *)
SourceCameras ==
    UNION {{Camera_new(h, v, fov),
            set_from(Camera_new(h, v, fov), point(0, 0, -5 * One)),
            Camera_set_transform(Camera_new(h, v, fov),
                view_transform(point(0, 0, -5 * One), point(0, 0, 0), vector(0, One, 0)))} :
           h \in RasterSizes, v \in RasterSizes, fov \in {"FRAC_PI_2", "FRAC_PI_3"}}

(* tupIn: the source camera; tupOut: the camera new_preview returned *)
InitPreview ==
    /\ tupIn \in {<<camera>> : camera \in SourceCameras}
    /\ tupPc = "ready"
    /\ tupOut = <<>>
    /\ world = new_default
    /\ RenderIdle
    /\ RayIdle
    /\ ShadeIdle
    /\ AppIdle
    /\ TransformIdle
    /\ GroupIdle

NewPreview ==
    /\ tupPc = "ready"
    /\ tupPc' = "new_preview"
    /\ tupOut' = <<new_preview(tupIn[1])>>
    /\ UNCHANGED tupIn
    /\ UNCHANGED varsNotTuple

NextPreview == NewPreview

SpecPreview == InitPreview /\ [][NextPreview]_vars

(* C26: the preview camera keeps the source camera's field of view, view   *)
(* transform and aspect ratio (up to the whole number of columns) and its  *)
(* raster is capped: never more rows or columns than the source camera's.  *)
Cex_C26 ==
    tupPc = "new_preview" =>
       LET camera == tupIn[1]
           preview == tupOut[1]
       IN /\ preview.field_of_view = camera.field_of_view
          /\ preview.transform = camera.transform
          /\ preview.hsize * camera.vsize <= camera.hsize * preview.vsize
          /\ camera.hsize * preview.vsize < (preview.hsize + 1) * camera.vsize
          /\ preview.vsize <= camera.vsize
          /\ preview.hsize <= camera.hsize


----------------------------------------------------------------------------
(***************************************************************************)
(* RayTracer (app.rs): the editor.  The UI thread runs update() once per   *)
(* frame: the handler of at most one widget event, then update_preview.    *)
(* The World of this layer holds ObjectHolders: shapes and groups.         *)
(***************************************************************************)
(* widget events handled in one run *)
MaxEvents == 4
(* top-level objects and group members of one World *)
MaxHolders == 4
(* Worlds waiting in the channel *)
MaxChannel == 2

(* usize::MAX, the value 0 - 1 wraps to where overflow checks are off;     *)
(* it stands here as the largest integer of the model                      *)
USIZE_MAX == 2147483647

(* ObjectHolder::Object *)
ShapeHolder(id) == [id |-> id, kind |-> "Object", elements |-> <<>>]

(* ObjectHolder::Group(Group::new_empty()) *)
GroupHolder(id) == [id |-> id, kind |-> "Group", elements |-> <<>>]

(* ObjectHolder::add_object_holder on a group *)
HolderAdd(holder, element) ==
    [holder EXCEPT !.elements = Append(@, element)]

(* Vec::remove(index), index counted from 0; panics past the end *)
VecRemove(v, index) ==
    [k \in 1..(Len(v) - 1) |-> IF k <= index THEN v[k] ELSE v[k + 1]]

(* ObjectHolder::remove_from_group *)
HolderRemove(holder, index) ==
    [holder EXCEPT !.elements = VecRemove(@, index)]

(* World::add_group: the group is pushed onto the top-level objects *)
add_group(w, grp) == [w EXCEPT !.objects = Append(@, grp)]

HolderIds(w) ==
    UNION {{w.objects[k].id} \cup
           {w.objects[k].elements[m].id : m \in DOMAIN w.objects[k].elements} :
           k \in DOMAIN w.objects}

NumHolders(w) == Cardinality(HolderIds(w))

(* an identity no holder of the World has *)
FreshId(w) == CHOOSE id \in 1..(MaxHolders + 1) : id \notin HolderIds(w)

(* World::new_default: two spheres and a light *)
EditorDefaultWorld == NewWorld(<<ShapeHolder(1), ShapeHolder(2)>>, <<Light>>)

(* the World after both spheres were deleted and a group and a shape added *)
EditorGroupWorld == NewWorld(<<GroupHolder(1), ShapeHolder(2)>>, <<Light>>)

(* self.world.objects()[value] is in range *)
ActiveInRange ==
    IF active_object = <<>> THEN TRUE
    ELSE active_object[1] < Len(world.objects)

UnchangedRenderBar ==
    UNCHANGED <<rendering, rendering_progress, renderThreads, shown>>

UnchangedRest ==
    /\ UNCHANGED varsRender /\ UNCHANGED varsRay /\ UNCHANGED varsShade
    /\ UNCHANGED <<ent, entPc, entOp, tree, grpPc, grpXs, grpRes,
                   tupPc, tupIn, tupOut>>

UnchangedPreview ==
    UNCHANGED <<preview_up_to_date, thread_just_finished_preview,
                preview_image, last_preview, channel, previewThread>>

(* RayTracer::default, or the editor at rest after the user has replaced   *)
(* the two spheres by a group and a shape and the preview has caught up    *)
InitEditor ==
    /\ \/ /\ world = EditorDefaultWorld
          /\ appPc = "default"
          /\ preview_up_to_date = FALSE
          /\ preview_image = <<>>
          /\ last_preview = <<>>
          /\ previewThread = [pc |-> "off", wd |-> <<>>]
       \/ /\ world = EditorGroupWorld
          /\ appPc = "handlers"
          /\ preview_up_to_date = TRUE
          /\ preview_image = <<EditorGroupWorld>>
          /\ last_preview = <<EditorGroupWorld>>
          /\ previewThread = [pc |-> "load", wd |-> <<>>]
    /\ events = 0
    /\ active_object = <<>>
    /\ thread_just_finished_preview = FALSE
    /\ channel = <<>>
    /\ rendering = FALSE /\ rendering_progress = 0
    /\ renderThreads = <<>> /\ shown = <<>>
    /\ RenderIdle
    /\ RayIdle
    /\ ShadeIdle
    /\ TransformIdle /\ GroupIdle /\ TupleIdle

(* RayTracer::prep_update after the handler has left the World as wd *)
prep_update(wd) ==
    /\ preview_up_to_date' = FALSE
    /\ channel' = Append(channel, wd)

(* epi::App::setup: spawns the preview thread and sends the World *)
Setup ==
    /\ appPc = "default"
    /\ previewThread' = [pc |-> "load", wd |-> <<>>]
    /\ channel' = Append(channel, world)
    /\ appPc' = "handlers"
    /\ UNCHANGED <<world, events, active_object, preview_up_to_date,
                   thread_just_finished_preview, preview_image, last_preview>>
    /\ UnchangedRenderBar /\ UnchangedRest

(* the guards every handler of a frame shares: the frame has reached the   *)
(* widgets, and the channel of the model has room                          *)
HandlerReady ==
    /\ appPc = "handlers"
    /\ ActiveInRange
    /\ events < MaxEvents
    /\ Len(channel) < MaxChannel

(* show_menu_bar evaluates get_active_object() in every frame:             *)
(* self.world.objects()[value] panics when value is out of range           *)
ShowMenuBarPanic ==
    /\ appPc = "handlers"
    /\ ~ActiveInRange
    /\ appPc' = "panic"
    /\ UNCHANGED <<world, events, active_object>>
    /\ UnchangedPreview /\ UnchangedRenderBar /\ UnchangedRest

(* a frame without a widget event *)
NoEvent ==
    /\ appPc = "handlers"
    /\ ActiveInRange
    /\ appPc' = "update_preview"
    /\ UNCHANGED <<world, events, active_object>>
    /\ UnchangedPreview /\ UnchangedRenderBar /\ UnchangedRest

(* show_object_list: ui.selectable_value(active_index, Some(i), ..) *)
SelectObject ==
    /\ HandlerReady
    /\ \E i \in 0..(Len(world.objects) - 1) : active_object' = <<i>>
    /\ events' = events + 1
    /\ appPc' = "update_preview"
    /\ UNCHANGED world
    /\ UnchangedPreview /\ UnchangedRenderBar /\ UnchangedRest

(* RayTracer::add_new_shape *)
AddNewShape ==
    /\ HandlerReady
    /\ NumHolders(world) < MaxHolders
    /\ \E wd \in {add_object(world, ShapeHolder(FreshId(world)))} :
          /\ world' = wd
          /\ prep_update(wd)
    /\ events' = events + 1
    /\ appPc' = "update_preview"
    /\ UNCHANGED <<active_object, thread_just_finished_preview, preview_image,
                   last_preview, previewThread>>
    /\ UnchangedRenderBar /\ UnchangedRest

(* RayTracer::add_new_group: no prep_update *)
AddNewGroup ==
    /\ HandlerReady
    /\ NumHolders(world) < MaxHolders
    /\ world' = add_group(world, GroupHolder(FreshId(world)))
    /\ events' = events + 1
    /\ appPc' = "update_preview"
    /\ UNCHANGED active_object
    /\ UnchangedPreview /\ UnchangedRenderBar /\ UnchangedRest

(* RayTracer::delete_active_object; the button is enabled while            *)
(* get_active_object() is Some                                             *)
DeleteActiveObject ==
    /\ HandlerReady
    /\ active_object # <<>>
    /\ \E index \in {active_object[1]} :
          /\ \E wd \in {[world EXCEPT !.objects = VecRemove(@, index)]} :
                /\ world' = wd
                /\ prep_update(wd)
          /\ active_object' = IF index = 0 THEN <<>> ELSE <<index - 1>>
    /\ events' = events + 1
    /\ appPc' = "update_preview"
    /\ UNCHANGED <<thread_just_finished_preview, preview_image,
                   last_preview, previewThread>>
    /\ UnchangedRenderBar /\ UnchangedRest

(* the World after "Add objects to group": the object at index remove is   *)
(* cloned into the active group and removed from the top level             *)
AddedToGroup(w, group_index, remove) ==
    [w EXCEPT !.objects =
        VecRemove([@ EXCEPT ![group_index + 1] =
                       HolderAdd(@, w.objects[remove + 1])],
                  remove)]

(* the group "Add objects to group" worked on still is the active object *)
SameGroup(before, after, index_before, index_after) ==
    /\ index_after # <<>>
    /\ index_after[1] < Len(after.objects)
    /\ after.objects[index_after[1] + 1].id = before.objects[index_before[1] + 1].id

(* the right index of the active group after the removal at index remove *)
ShiftedIndex(group_index, remove) ==
    IF remove < group_index THEN group_index - 1 ELSE group_index

(* show_menu_bar, "Add objects to group": enabled while the active object  *)
(* is a group; a button for every other top-level object.  The new index   *)
(* is active_object.unwrap() - 1 whatever was removed; at 0 the            *)
(* subtraction overflows: a panic where overflow checks are on, usize::MAX *)
(* where they are off.                                                     *)
AddObjectToGroup ==
    /\ HandlerReady
    /\ active_object # <<>>
    /\ is_group(world.objects[active_object[1] + 1])
    /\ \E i \in 0..(Len(world.objects) - 1) :
          /\ <<i>> # active_object
          /\ world' = AddedToGroup(world, active_object[1], i)
          /\ IF active_object[1] >= 1
                THEN /\ active_object' = <<active_object[1] - 1>>
                     /\ appPc' = "update_preview"
                ELSE \/ /\ active_object' = <<USIZE_MAX>>
                        /\ appPc' = "update_preview"
                     \/ /\ active_object' = active_object
                        /\ appPc' = "panic"
    /\ events' = events + 1
    /\ UnchangedPreview /\ UnchangedRenderBar /\ UnchangedRest

(* show_menu_bar, "Remove objects from group": the member leaves the       *)
(* active group and is pushed onto the top-level objects                   *)
RemoveObjectFromGroup ==
    /\ HandlerReady
    /\ active_object # <<>>
    /\ is_group(world.objects[active_object[1] + 1])
    /\ \E remove \in 0..(Len(world.objects[active_object[1] + 1].elements) - 1) :
          \E removed_item \in {world.objects[active_object[1] + 1].elements[remove + 1]} :
             world' = [world EXCEPT !.objects =
                          Append([@ EXCEPT ![active_object[1] + 1] =
                                      HolderRemove(@, remove)],
                                 removed_item)]
    /\ events' = events + 1
    /\ appPc' = "update_preview"
    /\ UNCHANGED active_object
    /\ UnchangedPreview /\ UnchangedRenderBar /\ UnchangedRest

(* the preview thread holds the write guard of preview_image from the      *)
(* World it received until the end of the block                            *)
PreviewHoldsImage == previewThread.pc \in {"render", "store", "finished"}

(* RayTracer::update_preview, called at the end of update() with the read  *)
(* guard of preview_image, which waits for the preview thread's write guard *)
UpdatePreview ==
    /\ appPc = "update_preview"
    /\ ~PreviewHoldsImage
    /\ IF preview_image # <<>> /\ thread_just_finished_preview
          THEN /\ last_preview' = preview_image
               /\ thread_just_finished_preview' = FALSE
          ELSE UNCHANGED <<last_preview, thread_just_finished_preview>>
    /\ appPc' = "handlers"
    /\ UNCHANGED <<world, events, active_object, preview_up_to_date,
                   preview_image, channel, previewThread>>
    /\ UnchangedRenderBar /\ UnchangedRest

UnchangedEditor == UNCHANGED <<world, appPc, events, active_object>>

(* preview thread: if !up_to_date.load(..) *)
PreviewLoad ==
    /\ previewThread.pc = "load"
    /\ previewThread' = IF preview_up_to_date
                           THEN previewThread
                           ELSE [previewThread EXCEPT !.pc = "try_recv"]
    /\ UNCHANGED <<preview_up_to_date, thread_just_finished_preview,
                   preview_image, last_preview, channel>>
    /\ UnchangedEditor /\ UnchangedRenderBar /\ UnchangedRest

(* preview thread: if let Ok(wd) = rx.try_recv(), then img_arc.write() *)
PreviewTryRecv ==
    /\ previewThread.pc = "try_recv"
    /\ IF channel # <<>>
          THEN /\ previewThread' = [pc |-> "render", wd |-> <<Head(channel)>>]
               /\ channel' = Tail(channel)
          ELSE /\ previewThread' = [pc |-> "load", wd |-> <<>>]
               /\ UNCHANGED channel
    /\ UNCHANGED <<preview_up_to_date, thread_just_finished_preview,
                   preview_image, last_preview>>
    /\ UnchangedEditor /\ UnchangedRenderBar /\ UnchangedRest

(* preview thread: cam.preview_parallel_render(wd), img_lock.insert(image) *)
PreviewRender ==
    /\ previewThread.pc = "render"
    /\ preview_image' = previewThread.wd
    /\ previewThread' = [previewThread EXCEPT !.pc = "store"]
    /\ UNCHANGED <<preview_up_to_date, thread_just_finished_preview,
                   last_preview, channel>>
    /\ UnchangedEditor /\ UnchangedRenderBar /\ UnchangedRest

(* preview thread: up_to_date.store(true, ..) *)
PreviewStoreUpToDate ==
    /\ previewThread.pc = "store"
    /\ preview_up_to_date' = TRUE
    /\ previewThread' = [previewThread EXCEPT !.pc = "finished"]
    /\ UNCHANGED <<thread_just_finished_preview, preview_image, last_preview,
                   channel>>
    /\ UnchangedEditor /\ UnchangedRenderBar /\ UnchangedRest

(* preview thread: just_finished.store(true, ..); the guard is dropped *)
PreviewStoreJustFinished ==
    /\ previewThread.pc = "finished"
    /\ thread_just_finished_preview' = TRUE
    /\ previewThread' = [pc |-> "load", wd |-> <<>>]
    /\ UNCHANGED <<preview_up_to_date, preview_image, last_preview, channel>>
    /\ UnchangedEditor /\ UnchangedRenderBar /\ UnchangedRest

NextEditor ==
    \/ Setup
    \/ ShowMenuBarPanic
    \/ NoEvent
    \/ SelectObject
    \/ AddNewShape
    \/ AddNewGroup
    \/ DeleteActiveObject
    \/ AddObjectToGroup
    \/ RemoveObjectFromGroup
    \/ UpdatePreview
    \/ PreviewLoad
    \/ PreviewTryRecv
    \/ PreviewRender
    \/ PreviewStoreUpToDate
    \/ PreviewStoreJustFinished

SpecEditor == InitEditor /\ [][NextEditor]_vars


(* the preview thread is between two runs of its block and the UI thread   *)
(* is alive                                                                *)
PreviewAtRest ==
    /\ appPc \in {"handlers", "update_preview"}
    /\ previewThread.pc = "load"

(* C27: when the preview thread is at rest and preview_up_to_date is true, *)
(* no World is left unrendered in the channel: the channel is first in     *)
(* first out, so the World the preview image was rendered from is then the *)
(* one prep_update sent last.                                              *)
Cex_C27 ==
    (PreviewAtRest /\ preview_up_to_date) => channel = <<>>

(* "Add objects to group" ran: a top-level object left the top level and   *)
(* every holder is still in the World                                      *)
MovedIntoGroup ==
    /\ events' = events + 1
    /\ Len(world'.objects) = Len(world.objects) - 1
    /\ HolderIds(world') = HolderIds(world)

(* C29: no editor action panics on an index or leaves active_object out of *)
(* range: it is None or smaller than the number of top-level objects; and  *)
(* after an object was moved into the active group, active_object is the   *)
(* index of that same group.                                               *)
Cex_C29 ==
    [][/\ appPc' # "panic"
       /\ ActiveInRange'
       /\ MovedIntoGroup => SameGroup(world, world', active_object, active_object')]_vars


----------------------------------------------------------------------------
(***************************************************************************)
(* RayTracer (app.rs): the render bar and the render threads it spawns.    *)
(* A thread of renderThreads is alive from std::thread::spawn until it has *)
(* stored rendering = false.                                               *)
(***************************************************************************)
(* render threads alive at once *)
MaxThreads == 2

(* rasters of the render camera: square, wide and tall *)
RenderCameras == [hsize : 1..2, vsize : 1..2]

(* the closure handed to std::thread::spawn, with the camera it copied *)
RenderThread(cmra) == [pc |-> "spawned", done |-> 0, cmra |-> cmra]

(* the ProgressBar of show_render_bar: rendering_progress as f32 /         *)
(* (vsize * vsize) as f32, kept as numerator and denominator               *)
ProgressBar(progress, camera) ==
    [num |-> progress, den |-> camera.vsize * camera.vsize]

UnchangedBarRest ==
    /\ UNCHANGED <<world, active_object>>
    /\ UnchangedPreview /\ UnchangedRest

InitRenderBar ==
    /\ world = new_default
    /\ cam \in RenderCameras
    /\ appPc = "handlers"
    /\ events = 0
    /\ rendering = FALSE
    /\ rendering_progress = 0
    /\ renderThreads = <<>>
    /\ shown = <<>>
    /\ active_object = <<>>
    /\ preview_up_to_date = FALSE /\ thread_just_finished_preview = FALSE
    /\ preview_image = <<>> /\ last_preview = <<>> /\ channel = <<>>
    /\ previewThread = [pc |-> "off", wd |-> <<>>]
    /\ lockReaders = 0 /\ lockWriter = FALSE /\ edits = 0 /\ tracker = 0
    /\ parPc = "off" /\ parWorld = new_default /\ image = <<>> /\ bands = <<>>
    /\ written = <<>> /\ seqPc = "off" /\ seqWorld = new_default
    /\ seqImage = <<>> /\ seqPos = [x |-> 0, y |-> 0]
    /\ RayIdle
    /\ ShadeIdle
    /\ TransformIdle /\ GroupIdle /\ TupleIdle

(* RayTracer::show_render_bar, one frame: the Render button is enabled     *)
(* while rendering reads false, a click spawns a render thread; then the   *)
(* ProgressBar is drawn if rendering reads true                            *)
ShowRenderBar ==
    /\ appPc = "handlers"
    /\ \E clicked \in BOOLEAN :
          /\ clicked => (events < MaxEvents /\ Len(renderThreads) < MaxThreads)
          /\ IF clicked /\ ~rendering
                THEN /\ renderThreads' = Append(renderThreads, RenderThread(cam))
                     /\ events' = events + 1
                ELSE UNCHANGED <<renderThreads, events>>
    /\ shown' = IF rendering
                   THEN <<ProgressBar(rendering_progress, cam)>>
                   ELSE <<>>
    /\ UNCHANGED <<cam, appPc, rendering, rendering_progress>>
    /\ UnchangedBarRest

UnchangedBar ==
    /\ UNCHANGED <<cam, appPc, events, shown>>
    /\ UnchangedBarRest

(* render thread: arc_rendering_state.store(true, ..) *)
RenderStoreTrue ==
    \E k \in DOMAIN renderThreads :
       /\ renderThreads[k].pc = "spawned"
       /\ rendering' = TRUE
       /\ renderThreads' = [renderThreads EXCEPT ![k].pc = "parallel_render"]
       /\ UNCHANGED rendering_progress
       /\ UnchangedBar

(* render thread, Camera::parallel_render: world.read() and                *)
(* tracker.store(0, ..)                                                    *)
RenderResetTracker ==
    \E k \in DOMAIN renderThreads :
       /\ renderThreads[k].pc = "parallel_render"
       /\ rendering_progress' = 0
       /\ renderThreads' = [renderThreads EXCEPT ![k].pc = "bands"]
       /\ UNCHANGED rendering
       /\ UnchangedBar

(* render thread, Camera::parallel_render: one pixel of a band,            *)
(* tracker.fetch_add(1, ..)                                                *)
RenderPixel ==
    \E k \in DOMAIN renderThreads :
       /\ renderThreads[k].pc = "bands"
       /\ renderThreads[k].done < NumPixels(renderThreads[k].cmra)
       /\ rendering_progress' = rendering_progress + 1
       /\ renderThreads' = [renderThreads EXCEPT ![k].done = @ + 1]
       /\ UNCHANGED rendering
       /\ UnchangedBar

(* render thread: canvas_to_png and arc_rendering_state.store(false, ..);  *)
(* the thread ends                                                         *)
RenderStoreFalse ==
    \E k \in DOMAIN renderThreads :
       /\ renderThreads[k].pc = "bands"
       /\ renderThreads[k].done = NumPixels(renderThreads[k].cmra)
       /\ rendering' = FALSE
       /\ renderThreads' = VecRemove(renderThreads, k - 1)
       /\ UNCHANGED rendering_progress
       /\ UnchangedBar

NextRenderBar ==
    \/ ShowRenderBar
    \/ RenderStoreTrue
    \/ RenderResetTracker
    \/ RenderPixel
    \/ RenderStoreFalse

SpecRenderBar == InitRenderBar /\ [][NextRenderBar]_vars

(* C28: at most one render thread is alive at any time. *)
Cex_C28 == Len(renderThreads) <= 1

(* C30: in a frame of the first render that draws the ProgressBar, the     *)
(* fraction drawn is the number of pixels the render thread has completed  *)
(* over hsize * vsize of its camera; it is at most 1, and 1 exactly when   *)
(* all pixels are done.                                                    *)
Cex_C30 ==
    [][(/\ ShowRenderBar
        /\ events' = 1
        /\ Len(renderThreads') = 1
        /\ shown' # <<>>)
       => /\ shown'[1].num * NumPixels(renderThreads'[1].cmra)
               = renderThreads'[1].done * shown'[1].den
          /\ shown'[1].num <= shown'[1].den
          /\ (shown'[1].num = shown'[1].den)
               <=> (renderThreads'[1].done = NumPixels(renderThreads'[1].cmra))]_vars

====
